---- MODULE Spec2Model ----
(***************************************************************************)
(* Memory pipeline of the chat backend: the chat handler of server.ts and  *)
(* the message service (messageService.ts) over the three Supabase tables  *)
(* messages, memory_summary and salient_memories.                          *)
(*                                                                         *)
(* Every `await` of the TypeScript code is a scheduling point, so each     *)
(* action below is one store or completion call together with the          *)
(* synchronous code that runs when it returns, up to the next await.       *)
(*                                                                         *)
(* A text is a sequence of pieces (strings); concatenation is \o.  Texts   *)
(* the code inspects character by character (completion answers) are       *)
(* sequences of one-character pieces.                                      *)
(***************************************************************************)
EXTENDS Integers, Sequences, FiniteSets, TLC

\* ---------------------------------------------------------------- constants
MAX_RECENT_MESSAGES == 10
MAX_MESSAGES_FOR_SUMMARY == 50
SUMMARY_THRESHOLD == 40
SALIENT_EXTRACTION_INTERVAL == 5

\* ------------------------------------------------------------------- bounds
\* turns already stored for user u1 when an execution starts
MaxStoredTurns == 51
\* recent turns handed to buildPromptWithHistory in SpecPrompt
MaxPromptTurns == 2
\* stored facts handed to buildPromptWithHistory in SpecPrompt
MaxPromptFacts == 2
\* lines of one answer of the completion service to the extraction prompt
MaxAnswerLines == 2
\* facts stored for a user before an extraction run
MaxExistingFacts == 2
\* stored turns beyond SUMMARY_THRESHOLD before the request (SpecBackgroundFair)
MaxTurnsPastThreshold == 1
\* turns handed to one generateMemorySummary call (SpecSummary)
MaxSummaryTurns == 4

\* ------------------------------------------------------------------ values
Users == {"u1", "u2"}
\* an optional value (undefined / null in the code) is a sequence of length 0 or 1
None == <<>>
Some(x) == <<x>>
NoUser == ""
NL == "\n"
SP == " "

DEFAULT_PERSONALITY == <<"You are a helpful AI assistant.">>
MsgRequired == <<"Message is required">>
UserRequired == <<"User ID is required">>
GenericFailure == <<"Failed to generate response">>
PersonaAck == <<"Understood. I will act according to this personality and remember the provided facts about the user.">>
SummaryAck == <<"Okay, I have reviewed the summary of our previous conversation.">>

\* ------------------------------------------------------------ text helpers
Min(a, b) == IF a < b THEN a ELSE b

Reverse(s) == [i \in 1..Len(s) |-> s[Len(s) + 1 - i]]

IsWhite(c) == c \in {SP, NL}

RECURSIVE TrimStart(_)
TrimStart(s) == IF s # <<>> /\ IsWhite(Head(s)) THEN TrimStart(Tail(s)) ELSE s

\* String.prototype.trim
Trim(s) == Reverse(TrimStart(Reverse(TrimStart(s))))

\* String.prototype.split('\n')
RECURSIVE SplitLines(_, _)
SplitLines(s, cur) ==
  IF s = <<>> THEN <<cur>>
  ELSE IF Head(s) = NL THEN <<cur>> \o SplitLines(Tail(s), <<>>)
  ELSE SplitLines(Tail(s), Append(cur, Head(s)))

StartsWith(s, p) == Len(s) >= Len(p) /\ SubSeq(s, 1, Len(p)) = p

\* Array.prototype.join(sep)
RECURSIVE Join(_, _)
Join(ts, sep) ==
  IF ts = <<>> THEN <<>>
  ELSE IF Len(ts) = 1 THEN ts[1]
  ELSE ts[1] \o sep \o Join(Tail(ts), sep)

\* ------------------------------------------------------------ query helpers
\* .order('timestamp', { ascending }): rows of equal timestamp stay in the order
\* of the table.  RankSort is the sort; a table that is one strictly ascending run
\* (what successive inserts with timestamp now() produce) is recognised first, as
\* run-detecting sorts do, and is returned as it is or reversed.
RankSort(rows, ascending) ==
  LET n == Len(rows)
      Before(i, j) ==
        IF rows[i].timestamp = rows[j].timestamp THEN i < j
        ELSE IF ascending THEN rows[i].timestamp < rows[j].timestamp
        ELSE rows[i].timestamp > rows[j].timestamp
      rank == [i \in 1..n |-> 1 + Cardinality({j \in 1..n : Before(j, i)})] \o <<>>
  IN  [k \in 1..n |-> rows[CHOOSE i \in 1..n : rank[i] = k]]

StrictlyAscending(rows) ==
  \A i \in 1..(Len(rows) - 1) : rows[i].timestamp < rows[i + 1].timestamp

OrderByTimestamp(rows, ascending) ==
  IF StrictlyAscending(rows)
  THEN IF ascending THEN rows ELSE Reverse(rows)
  ELSE RankSort(rows, ascending)

\* .limit(n)
Limit(rows, n) == SubSeq(rows, 1, Min(n, Len(rows)))

\* ------------------------------------------------------------------- state
VARIABLES
  messages,          \* table messages: per user, the stored turns in insertion order
  memory_summary,    \* table memory_summary: a set of rows
  salient_memories,  \* table salient_memories: per user, the stored facts in insertion order
  personalities,     \* table personalities: per user, the description if any
  apiKeySet,         \* process.env.GEMINI_API_KEY is set
  genAI,             \* the lazily constructed Gemini client of server.ts
  clock,             \* wall clock as read by new Date()
  req,               \* the chat requests and the position of each chatHandler call
  tasks              \* the processBackgroundMemory calls, in the order they were started

vars == <<messages, memory_summary, salient_memories, personalities, apiKeySet,
          genAI, clock, req, tasks>>

store == <<messages, memory_summary, salient_memories, personalities>>

\* req.body.message: missing, the empty string, or a text
MessageInputs == {None, Some(<<>>), Some(<<"hello">>)}
\* req.body.userId: missing (or empty), or a user
UserIdInputs == {NoUser} \cup Users
\* texts chat.sendMessage answers with
ChatReplies == {<<"reply">>}

\* mutant of MessageMissing: message === undefined, so '' passes
MessageUndefined(message) == message = None

\* !message
MessageMissing(message) == message = None \/ message[1] = <<>>
\* !userId
UserIdMissing(userId) == userId = NoUser

NoBody == [kind |-> "none", text |-> <<>>]
ErrorBody(text) == [kind |-> "error", text |-> text]
ResponseBody(text) == [kind |-> "response", text |-> text]

NewRequest ==
  [pc |-> "idle", message |-> None, userId |-> NoUser,
   recentMessages |-> <<>>, systemInstruction |-> <<>>, memorySummary |-> None,
   salientMemories |-> <<>>, history |-> <<>>, botResponseText |-> None,
   saved |-> <<>>, calls |-> <<>>, status |-> 0, body |-> NoBody]

\* ---------------------------------------------------------- message store
\* insert({ user_id, content, role }).select().single(): timestamp defaults to now()
InsertedMessage(userId, content, role) ==
  [user_id |-> userId, role |-> role, content |-> content,
   timestamp |-> Len(messages[userId]) + 1]

\* mutant of RecentQuery: the newest rows, in the order the store returns them
RecentQueryNewestFirst(rows) == Limit(OrderByTimestamp(rows, FALSE), MAX_RECENT_MESSAGES)

\* getRecentMessages: the query of messageService.ts:32-37
RecentQuery(rows) == Limit(OrderByTimestamp(rows, TRUE), MAX_RECENT_MESSAGES)

\* mutant of CountQuery: only the user's own turns are counted
CountQueryOfUserTurns(rows) == Len(SelectSeq(rows, LAMBDA row : row.role = "user"))

\* select('id', { count: 'exact', head: true }).eq('user_id', userId)
CountQuery(rows) == Len(rows)

\* mutant of ExtractionQuery: ascending order, as in getRecentMessages
ExtractionQueryOldestFirst(rows) ==
  Limit(OrderByTimestamp(rows, TRUE), SALIENT_EXTRACTION_INTERVAL * 2)

\* the query of extractSalientFacts
ExtractionQuery(rows) == Limit(OrderByTimestamp(rows, FALSE), SALIENT_EXTRACTION_INTERVAL * 2)

\* mutant of SummaryQuery: no limit, every turn of the user is fetched
SummaryQueryUnlimited(rows) == OrderByTimestamp(rows, FALSE)

\* mutant of SummaryQuery: the oldest rows first, as getRecentMessages orders them
SummaryQueryOldestFirst(rows) == Limit(OrderByTimestamp(rows, TRUE), MAX_MESSAGES_FOR_SUMMARY)

\* the query of checkAndSummarizeMemory
SummaryQuery(rows) == Limit(OrderByTimestamp(rows, FALSE), MAX_MESSAGES_FOR_SUMMARY)

\* getMemorySummary: order by updated_at descending, limit 1, single; null on error
SummaryRowsOf(userId) == {r \in memory_summary : r.user_id = userId}

\* mutant of getMemorySummary: the query has no user filter, the latest summary
\* of the whole table is returned
getLatestMemorySummary(userId, ok) ==
  IF ~ok \/ memory_summary = {} THEN None
  ELSE Some(CHOOSE r \in memory_summary :
              \A q \in memory_summary : q.updated_at <= r.updated_at)

getMemorySummary(userId, ok) ==
  IF ~ok \/ SummaryRowsOf(userId) = {} THEN None
  ELSE Some(CHOOSE r \in SummaryRowsOf(userId) :
              \A q \in SummaryRowsOf(userId) : q.updated_at <= r.updated_at)

\* getSalientMemories: all facts of the user by timestamp; [] on error
getSalientMemories(userId, ok) ==
  IF ok THEN OrderByTimestamp(salient_memories[userId], TRUE) ELSE <<>>

\* getPersonalityDescription: the stored description, or the default
getPersonalityDescription(userId, ok) ==
  IF ok /\ personalities[userId] # None THEN personalities[userId][1] ELSE DEFAULT_PERSONALITY

\* ------------------------------------------------------- context assembly
\* { role, parts: [{ text }] }
UserEntry(text) == [role |-> "user", parts |-> <<[text |-> text]>>]
ModelEntry(text) == [role |-> "model", parts |-> <<[text |-> text]>>]

FactLines(salientMemories) ==
  [i \in 1..Len(salientMemories) |-> <<"- ">> \o salientMemories[i].content]

InitialUserPrompt(systemInstruction, salientMemories) ==
  <<"System Prompt: ">> \o systemInstruction
    \o (IF Len(salientMemories) > 0
        THEN <<NL, NL, "Things to remember about the user:", NL>>
               \o Join(FactLines(salientMemories), <<NL>>)
        ELSE <<>>)

\* memorySummary?.content
HasSummaryContent(memorySummary) == memorySummary # None /\ memorySummary[1].content # <<>>

\* mutant of SummaryEntries: if (memorySummary), so a row without content counts
SummaryEntriesForAnyRow(memorySummary) ==
  IF memorySummary # None
  THEN << UserEntry(<<"Previous Conversation Summary: ">> \o memorySummary[1].content),
          ModelEntry(SummaryAck) >>
  ELSE <<>>

SummaryEntries(memorySummary) ==
  IF HasSummaryContent(memorySummary)
  THEN << UserEntry(<<"Previous Conversation Summary: ">> \o memorySummary[1].content),
          ModelEntry(SummaryAck) >>
  ELSE <<>>

HistoryEntry(msg) ==
  [role |-> IF msg.role = "user" THEN "user" ELSE "model",
   parts |-> <<[text |-> msg.content]>>]

\* mutant of buildPromptWithHistory: the facts are handed over as an entry of
\* their own, after the persona entry
buildPromptWithFactsEntry(systemInstruction, memorySummary, salientMemories, msgs, newMessage) ==
  << UserEntry(<<"System Prompt: ">> \o systemInstruction) >>
    \o (IF Len(salientMemories) > 0
        THEN << UserEntry(<<"Things to remember about the user:", NL>>
                            \o Join(FactLines(salientMemories), <<NL>>)) >>
        ELSE <<>>)
    \o << ModelEntry(PersonaAck) >>
    \o SummaryEntries(memorySummary)
    \o [i \in 1..Len(msgs) |-> HistoryEntry(msgs[i])]
    \o << UserEntry(newMessage) >>

buildPromptWithHistory(systemInstruction, memorySummary, salientMemories, msgs, newMessage) ==
  << UserEntry(InitialUserPrompt(systemInstruction, salientMemories)),
     ModelEntry(PersonaAck) >>
    \o SummaryEntries(memorySummary)
    \o [i \in 1..Len(msgs) |-> HistoryEntry(msgs[i])]
    \o << UserEntry(newMessage) >>

\* ------------------------------------------------------- background tasks
\* One processBackgroundMemory call: its position, the count it read (-1 before),
\* which branches it entered, the locals of the branch it is in, the answer of
\* its extraction call, how its extraction and its summarization ended, the
\* newest turn of the window its summarization fetched and the updated_at of
\* the summary it stored (0 before).
NewTask(userId, by, role) ==
  [userId |-> userId, by |-> by, role |-> role, pc |-> "count", count |-> -1,
   ranExtraction |-> FALSE, ranSummary |-> FALSE,
   window |-> <<>>, rawText |-> <<>>, facts |-> <<>>, toInsert |-> <<>>,
   exOutcome |-> "none", summary |-> None, updated_at |-> 0, outcome |-> "none",
   fetchedUpTo |-> 0, savedAt |-> 0]

\* mutant of StartBackground: only a saved user turn starts an evaluation
StartBackgroundForUserTurns(userId, by, role) ==
  IF role = "user" THEN Append(tasks, NewTask(userId, by, role)) ELSE tasks

\* saveMessage after a successful insert: processBackgroundMemory(userId) is called
\* and not awaited; it runs up to its first await (the count query)
StartBackground(userId, by, role) == Append(tasks, NewTask(userId, by, role))

\* ------------------------------------------------------------ chat handler
Called(r, call, ok) == Append(req[r].calls, [call |-> call, ok |-> ok])

\* res.status(code).json(body): the handler is finished
Respond(r, code, body, calls) ==
  [req EXCEPT ![r].pc = "done", ![r].status = code, ![r].body = body, ![r].calls = calls]

\* the catch block of chatHandler
RespondFailure(r, call) == Respond(r, 500, ErrorBody(GenericFailure), Called(r, call, FALSE))

\* mutant of SaveMessageThrows: the insert error is logged and the handler goes on
SaveMessageSwallows(r, call) ==
  IF call = "saveMessage:user"
  THEN [req EXCEPT ![r].pc = "fetch", ![r].calls = Called(r, call, FALSE)]
  ELSE Respond(r, 200, ResponseBody(req[r].botResponseText[1]), Called(r, call, FALSE))

\* mutant of SaveMessageThrows: a reply that could not be saved is sent anyway
UnsavedReplySent(r, call) ==
  IF call = "saveMessage:model"
  THEN Respond(r, 200, ResponseBody(req[r].botResponseText[1]), Called(r, call, FALSE))
  ELSE RespondFailure(r, call)

\* saveMessage on an insert error: it throws, and chatHandler's catch answers
SaveMessageThrows(r, call) == RespondFailure(r, call)

\* mutant of SendMessageThrows: a canned reply stands in for the failed completion
SendMessageFallsBack(r) ==
  [req EXCEPT ![r].pc = "save_model", ![r].botResponseText = Some(<<"sorry">>),
              ![r].calls = Called(r, "sendMessage", FALSE)]

\* chat.sendMessage throws: chatHandler's catch answers
SendMessageThrows(r) == RespondFailure(r, "sendMessage")

\* mutant of SaveMessageReturned: await processBackgroundMemory(userId)
SaveMessageAwaitsBackground(r) ==
  \A t \in DOMAIN tasks : tasks[t].by = r => tasks[t].pc = "done"

\* saveMessage does not await the processBackgroundMemory promise it created, so
\* its caller is never held back by the evaluations it started
SaveMessageReturned(r) == TRUE

\* mutant of ModelTurn: the user's message is saved in place of the reply
ModelTurnOfMessage(r) == InsertedMessage(req[r].userId, req[r].message[1], "model")

\* the row saveMessage(userId, botResponseText, 'model') inserts
ModelTurn(r) == InsertedMessage(req[r].userId, req[r].botResponseText[1], "model")

\* the row saveMessage(userId, message, 'user') inserts
UserTurn(r) == InsertedMessage(req[r].userId, req[r].message[1], "user")

\* A request arrives: validation, initializeGeminiClient, and the insert of
\* saveMessage(userId, message, 'user') is issued.
Receive(r) ==
  /\ req[r].pc = "idle"
  /\ IF r = 1 THEN TRUE ELSE req[r - 1].pc # "idle"
  /\ \E message \in MessageInputs, userId \in UserIdInputs :
       LET got == [req EXCEPT ![r].message = message, ![r].userId = userId] IN
       IF MessageMissing(message)
       THEN /\ req' = [got EXCEPT ![r].pc = "done", ![r].status = 400,
                                  ![r].body = ErrorBody(MsgRequired)]
            /\ UNCHANGED genAI
       ELSE IF UserIdMissing(userId)
       THEN /\ req' = [got EXCEPT ![r].pc = "done", ![r].status = 400,
                                  ![r].body = ErrorBody(UserRequired)]
            /\ UNCHANGED genAI
       ELSE IF ~genAI /\ ~apiKeySet
       THEN /\ req' = [got EXCEPT ![r].pc = "done", ![r].status = 500,
                                  ![r].body = ErrorBody(GenericFailure),
                                  ![r].calls = <<[call |-> "initializeGeminiClient", ok |-> FALSE]>>]
            /\ UNCHANGED genAI
       ELSE /\ req' = [got EXCEPT ![r].pc = "save_user"]
            /\ genAI' = TRUE
  /\ UNCHANGED <<store, apiKeySet, clock, tasks>>

\* saveMessage(userId, message, 'user') returns or throws
SaveUserMessage(r) ==
  /\ req[r].pc = "save_user"
  /\ \E ok \in BOOLEAN :
       IF ok
       THEN LET row == UserTurn(r) IN
            /\ messages' = [messages EXCEPT ![req[r].userId] = Append(@, row)]
            /\ tasks' = StartBackground(req[r].userId, r, "user")
            /\ req' = [req EXCEPT ![r].pc = "fetch", ![r].saved = Append(@, row),
                                  ![r].calls = Called(r, "saveMessage:user", TRUE)]
       ELSE /\ req' = SaveMessageThrows(r, "saveMessage:user")
            /\ UNCHANGED <<messages, tasks>>
  /\ UNCHANGED <<memory_summary, salient_memories, personalities, apiKeySet, genAI, clock>>

\* getRecentMessages(userId) returns or throws
GetRecentMessages(r) ==
  /\ req[r].pc = "fetch"
  /\ SaveMessageReturned(r)
  /\ \E ok \in BOOLEAN :
       IF ok
       THEN req' = [req EXCEPT ![r].pc = "persona",
                               ![r].recentMessages = RecentQuery(messages[req[r].userId]),
                               ![r].calls = Called(r, "getRecentMessages", TRUE)]
       ELSE req' = RespondFailure(r, "getRecentMessages")
  /\ UNCHANGED <<store, apiKeySet, genAI, clock, tasks>>

\* mutant of PersonalitiesAfterAssembly: the description the assembler resolved
\* (the default one for a user without a personality) is stored for the user
PersonalitiesSetByAssembly(userId, systemInstruction) ==
  [personalities EXCEPT ![userId] = Some(systemInstruction)]

\* buildPromptWithHistory keeps the description it was given as a local and
\* writes nothing back: messageService.ts never names the personalities table
PersonalitiesAfterAssembly(userId, systemInstruction) == personalities

\* buildPromptWithHistory, first await: getPersonalityDescription
ReadPersonality(r) ==
  /\ req[r].pc = "persona"
  /\ \E ok \in BOOLEAN :
       LET systemInstruction == getPersonalityDescription(req[r].userId, ok) IN
       /\ req' = [req EXCEPT ![r].pc = "summary", ![r].systemInstruction = systemInstruction]
       /\ personalities' = PersonalitiesAfterAssembly(req[r].userId, systemInstruction)
  /\ UNCHANGED <<messages, memory_summary, salient_memories, apiKeySet, genAI, clock, tasks>>

\* mutant of MemorySummaryRead: a failed summary query rejects buildPromptWithHistory
MemorySummaryReadOrThrown(r, ok) ==
  IF ok
  THEN [req EXCEPT ![r].pc = "facts", ![r].memorySummary = getMemorySummary(req[r].userId, ok)]
  ELSE RespondFailure(r, "buildPromptWithHistory")

\* const memorySummary = await getMemorySummary(userId): the assembly goes on
\* with what the lookup returned, a row or null
MemorySummaryRead(r, ok) ==
  [req EXCEPT ![r].pc = "facts", ![r].memorySummary = getMemorySummary(req[r].userId, ok)]

\* buildPromptWithHistory, second await: getMemorySummary
ReadMemorySummary(r) ==
  /\ req[r].pc = "summary"
  /\ \E ok \in BOOLEAN : req' = MemorySummaryRead(r, ok)
  /\ UNCHANGED <<store, apiKeySet, genAI, clock, tasks>>

\* buildPromptWithHistory, third await: getSalientMemories; the history is
\* assembled and chat.sendMessage(message) is issued
ReadSalientMemories(r) ==
  /\ req[r].pc = "facts"
  /\ \E ok \in BOOLEAN :
       LET salientMemories == getSalientMemories(req[r].userId, ok) IN
       req' = [req EXCEPT ![r].pc = "complete",
                          ![r].salientMemories = salientMemories,
                          ![r].history = buildPromptWithHistory(req[r].systemInstruction,
                                           req[r].memorySummary, salientMemories,
                                           req[r].recentMessages, req[r].message[1]),
                          ![r].calls = Called(r, "buildPromptWithHistory", TRUE)]
  /\ UNCHANGED <<store, apiKeySet, genAI, clock, tasks>>

\* chat.sendMessage(message) returns a text or throws; the insert of
\* saveMessage(userId, botResponseText, 'model') is issued
SendMessage(r) ==
  /\ req[r].pc = "complete"
  /\ \/ \E text \in ChatReplies :
          req' = [req EXCEPT ![r].pc = "save_model", ![r].botResponseText = Some(text),
                             ![r].calls = Called(r, "sendMessage", TRUE)]
     \/ req' = SendMessageThrows(r)
  /\ UNCHANGED <<store, apiKeySet, genAI, clock, tasks>>

\* saveMessage(userId, botResponseText, 'model') returns or throws; res.json
SaveModelMessage(r) ==
  /\ req[r].pc = "save_model"
  /\ \E ok \in BOOLEAN :
       IF ok
       THEN LET row == ModelTurn(r) IN
            /\ messages' = [messages EXCEPT ![req[r].userId] = Append(@, row)]
            /\ tasks' = StartBackground(req[r].userId, r, "model")
            /\ req' = [req EXCEPT ![r].pc = "done", ![r].saved = Append(@, row),
                                  ![r].status = 200,
                                  ![r].body = ResponseBody(req[r].botResponseText[1]),
                                  ![r].calls = Called(r, "saveMessage:model", TRUE)]
       ELSE /\ req' = SaveMessageThrows(r, "saveMessage:model")
            /\ UNCHANGED <<messages, tasks>>
  /\ UNCHANGED <<memory_summary, salient_memories, personalities, apiKeySet, genAI, clock>>

chatHandler(r) ==
  \/ Receive(r)
  \/ SaveUserMessage(r)
  \/ GetRecentMessages(r)
  \/ ReadPersonality(r)
  \/ ReadMemorySummary(r)
  \/ ReadSalientMemories(r)
  \/ SendMessage(r)
  \/ SaveModelMessage(r)

\* ---------------------------------------------------- background evaluation
NoFacts == <<"No new important facts.">>

\* what model.generateContent answers to the extraction prompt
ExtractionAnswers ==
  { NoFacts,
    <<"-", SP, "a">>,
    <<SP, "-", SP, "a", SP, NL, "x", NL, "-", SP, "b", NL>> }

\* what model.generateContent answers to the summary prompt
SummaryAnswers == { <<SP, "s", "1", NL>>, <<"s", "2">>, <<SP>> }

\* mutant of ShouldExtract: messageCount >= SALIENT_EXTRACTION_INTERVAL
ShouldExtractFromInterval(messageCount) == messageCount >= SALIENT_EXTRACTION_INTERVAL

\* mutant of ShouldExtract: every saved turn triggers an extraction
ShouldExtractEveryTurn(messageCount) == messageCount > 0

\* messageCount > 0 && messageCount % SALIENT_EXTRACTION_INTERVAL === 0
ShouldExtract(messageCount) ==
  messageCount > 0 /\ messageCount % SALIENT_EXTRACTION_INTERVAL = 0

\* mutant of ShouldSummarize: messageCount > SUMMARY_THRESHOLD
ShouldSummarizeAbove(messageCount) == messageCount > SUMMARY_THRESHOLD

\* mutant of ShouldSummarize: only the count that reaches the threshold triggers
ShouldSummarizeAtThreshold(messageCount) == messageCount = SUMMARY_THRESHOLD

\* messageCount >= SUMMARY_THRESHOLD
ShouldSummarize(messageCount) == messageCount >= SUMMARY_THRESHOLD

\* rawText.split('\n').map(trim).filter(startsWith('- ')).map(substring(2).trim())
RECURSIVE MarkedLines(_)
MarkedLines(lines) ==
  IF lines = <<>> THEN <<>>
  ELSE LET line == Trim(Head(lines)) IN
       (IF StartsWith(line, <<"-", SP>>)
        THEN <<Trim(SubSeq(line, 3, Len(line)))>> ELSE <<>>)
         \o MarkedLines(Tail(lines))

\* mutant of ParseFacts: the marker is looked for in the lines as they come,
\* without the trim of each line
ParseFactsOfUntrimmedLines(text) ==
  LET rawText == Trim(text)
      marked == SelectSeq(SplitLines(rawText, <<>>), LAMBDA line : StartsWith(line, <<"-", SP>>)) IN
  IF rawText = NoFacts \/ rawText = <<>> THEN <<>>
  ELSE [i \in 1..Len(marked) |-> Trim(SubSeq(marked[i], 3, Len(marked[i])))]

\* the parse of extractSalientFacts, from response.text()
ParseFacts(text) ==
  LET rawText == Trim(text) IN
  IF rawText = NoFacts \/ rawText = <<>> THEN <<>>
  ELSE MarkedLines(SplitLines(rawText, <<>>))

\* `${msg.role}: ${msg.content}` joined by '\n'
ConversationText(msgs) ==
  Join([i \in 1..Len(msgs) |-> <<msgs[i].role, ": ">> \o msgs[i].content], <<NL>>)

\* mutant of LogBackgroundError: the error is rethrown into the request whose
\* saveMessage started the evaluation, if that request is still being handled
BackgroundErrorRethrown(t) ==
  IF req[tasks[t].by].pc \in {"idle", "done"} THEN req
  ELSE Respond(tasks[t].by, 500, ErrorBody(GenericFailure), req[tasks[t].by].calls)

\* A failed call of a background evaluation is logged with console.error (the
\* early return of processBackgroundMemory, the catch blocks of
\* extractSalientFacts, extractAndSaveSalientMemories and checkAndSummarizeMemory,
\* the .catch of saveMessage) and goes no further: no request sees it.
LogBackgroundError(t) == req

\* mutant of Finish: an evaluation that failed starts over from the count query
FinishOrRetry(task, outcome) ==
  IF outcome \in {"count_failed", "fetch_failed", "complete_failed", "save_failed"}
  THEN [task EXCEPT !.pc = "count", !.count = -1, !.window = <<>>, !.summary = None,
                    !.updated_at = 0]
  ELSE [task EXCEPT !.pc = "done", !.outcome = outcome,
                    !.window = <<>>, !.summary = None, !.updated_at = 0]

\* processBackgroundMemory returns: its promise settles
Finish(task, outcome) ==
  [task EXCEPT !.pc = "done", !.outcome = outcome,
               !.window = <<>>, !.summary = None, !.updated_at = 0]

\* processBackgroundMemory line 109 on: the second trigger, after the first
\* branch has returned (or was not taken)
AfterExtraction(task) ==
  LET back == [task EXCEPT !.window = <<>>, !.facts = <<>>, !.toInsert = <<>>] IN
  IF ShouldSummarize(task.count)
  THEN [back EXCEPT !.pc = "sum_fetch", !.ranSummary = TRUE]
  ELSE Finish(back, "none")

ExtractionFailures == {"fetch_failed", "complete_failed", "read_failed", "insert_failed"}

\* mutant of EndExtraction: a failed extraction rejects processBackgroundMemory
EndExtractionRethrows(task, exOutcome) ==
  IF exOutcome \in ExtractionFailures
  THEN Finish([task EXCEPT !.exOutcome = exOutcome, !.facts = <<>>, !.toInsert = <<>>], "none")
  ELSE AfterExtraction([task EXCEPT !.exOutcome = exOutcome])

\* extractAndSaveSalientMemories returns, however the extraction went: every
\* error inside it is caught and logged (lines 199-202, 233-236, 253-256,
\* 269-271, 282-284)
EndExtraction(task, exOutcome) == AfterExtraction([task EXCEPT !.exOutcome = exOutcome])

\* processBackgroundMemory line 101 on: both triggers, from the count read
AfterCount(task) ==
  IF ShouldExtract(task.count)
  THEN [task EXCEPT !.pc = "ex_fetch", !.ranExtraction = TRUE]
  ELSE AfterExtraction(task)

\* mutant of CountRead: the evaluation works with the count as it was when its
\* own turn was saved
CountAsOfSave(task) ==
  (CHOOSE row \in {req[task.by].saved[i] : i \in DOMAIN req[task.by].saved} :
     row.role = task.role).timestamp

\* mutant of CountUnreadable: the error is logged and the evaluation goes on to
\* the extraction
CountFailureIgnored(task) == [task EXCEPT !.pc = "ex_fetch", !.ranExtraction = TRUE]

\* if (countError): the error is logged and processBackgroundMemory returns
CountUnreadable(task) == Finish(task, "count_failed")

\* the count query runs when the evaluation gets to it: it counts the rows the
\* user has by then
CountRead(task) == CountQuery(messages[task.userId])

\* the count query of processBackgroundMemory returns
CountMessages(t) ==
  /\ tasks[t].pc = "count"
  /\ \E ok \in BOOLEAN :
       /\ IF ok
          THEN tasks' = [tasks EXCEPT
                           ![t] = AfterCount([tasks[t] EXCEPT
                                                !.count = CountRead(tasks[t])])]
          ELSE tasks' = [tasks EXCEPT ![t] = CountUnreadable(tasks[t])]
       /\ req' = IF ok THEN req ELSE LogBackgroundError(t)
  /\ UNCHANGED <<store, apiKeySet, genAI, clock>>

\* extractSalientFacts: the message fetch returns; on rows, the prompt is built
\* from them in chronological order and model.generateContent is issued
ExtractionFetch(t) ==
  /\ tasks[t].pc = "ex_fetch"
  /\ \E ok \in BOOLEAN :
       LET recentMessages == ExtractionQuery(messages[tasks[t].userId]) IN
       /\ IF ok /\ Len(recentMessages) > 0
          THEN tasks' = [tasks EXCEPT ![t].pc = "ex_llm", ![t].window = Reverse(recentMessages)]
          ELSE tasks' = [tasks EXCEPT
                           ![t] = EndExtraction(tasks[t], IF ok THEN "no_turns"
                                                          ELSE "fetch_failed")]
       /\ req' = IF ok /\ Len(recentMessages) > 0 THEN req ELSE LogBackgroundError(t)
  /\ UNCHANGED <<store, apiKeySet, genAI, clock>>

\* extractSalientFacts: model.generateContent returns one of `answers` or throws;
\* saveNewSalientFacts returns at once for no facts, else issues the read of the
\* existing facts
ExtractionReturns(t, answers) ==
  /\ tasks[t].pc = "ex_llm"
  /\ \/ /\ \E text \in answers :
             LET facts == ParseFacts(text) IN
             IF Len(facts) = 0
             THEN tasks' = [tasks EXCEPT
                              ![t] = EndExtraction([tasks[t] EXCEPT !.rawText = text],
                                                   "no_facts")]
             ELSE tasks' = [tasks EXCEPT ![t].pc = "ex_read", ![t].facts = facts,
                                         ![t].rawText = text, ![t].window = <<>>]
        /\ UNCHANGED req
     \/ /\ tasks' = [tasks EXCEPT ![t] = EndExtraction(tasks[t], "complete_failed")]
        /\ req' = LogBackgroundError(t)
  /\ UNCHANGED <<store, apiKeySet, genAI, clock>>

ExtractionComplete(t) == ExtractionReturns(t, ExtractionAnswers)

Lower(c) == IF c = "A" THEN "a" ELSE c

LowerCase(text) == [i \in 1..Len(text) |-> Lower(text[i])]

\* mutant of FactsToInsert: facts are compared without regard to case
FactsToInsertIgnoringCase(facts, existingFacts) ==
  LET existingContent == {LowerCase(existingFacts[i].content) : i \in 1..Len(existingFacts)} IN
  SelectSeq(facts, LAMBDA fact : LowerCase(fact) \notin existingContent)

\* facts.filter(fact => !existingContent.has(fact))
FactsToInsert(facts, existingFacts) ==
  LET existingContent == {existingFacts[i].content : i \in 1..Len(existingFacts)} IN
  SelectSeq(facts, LAMBDA fact : fact \notin existingContent)

\* mutant of ExistingFactsUnreadable: the failed read counts as no existing fact
ExistingFactsAssumedEmpty(task) ==
  [task EXCEPT !.pc = "ex_insert", !.toInsert = task.facts, !.exOutcome = "read_failed"]

\* saveNewSalientFacts on fetchError: return, "Don't save if we can't check
\* duplicates"
ExistingFactsUnreadable(task) == EndExtraction(task, "read_failed")

\* saveNewSalientFacts: the read of the existing facts returns
ReadExistingFacts(t) ==
  /\ tasks[t].pc = "ex_read"
  /\ \E ok \in BOOLEAN :
       LET factsToInsert == FactsToInsert(tasks[t].facts, salient_memories[tasks[t].userId]) IN
       /\ IF ~ok
          THEN tasks' = [tasks EXCEPT ![t] = ExistingFactsUnreadable(tasks[t])]
          ELSE IF Len(factsToInsert) > 0
          THEN tasks' = [tasks EXCEPT ![t].pc = "ex_insert", ![t].toInsert = factsToInsert]
          ELSE tasks' = [tasks EXCEPT ![t] = EndExtraction(tasks[t], "nothing_new")]
       /\ req' = IF ok THEN req ELSE LogBackgroundError(t)
  /\ UNCHANGED <<store, apiKeySet, genAI, clock>>

\* mutant of InsertedFacts: rows whose content the user already has are skipped
InsertedFactsNotStored(userId, factsToInsert) ==
  LET stored == {salient_memories[userId][i].content : i \in DOMAIN salient_memories[userId]}
      fresh == SelectSeq(factsToInsert, LAMBDA fact : fact \notin stored) IN
  [i \in 1..Len(fresh) |->
     [user_id |-> userId, content |-> fresh[i],
      timestamp |-> Len(salient_memories[userId]) + 1]]

\* insert(factsToInsert): every row of one insert gets the same now()
InsertedFacts(userId, factsToInsert) ==
  [i \in 1..Len(factsToInsert) |->
     [user_id |-> userId, content |-> factsToInsert[i],
      timestamp |-> Len(salient_memories[userId]) + 1]]

\* saveNewSalientFacts: the insert returns
InsertFacts(t) ==
  /\ tasks[t].pc = "ex_insert"
  /\ \E ok \in BOOLEAN :
       /\ tasks' = [tasks EXCEPT
                        ![t] = EndExtraction(tasks[t], IF ok THEN "inserted"
                                                       ELSE "insert_failed")]
       /\ IF ok
          THEN salient_memories' =
                 [salient_memories EXCEPT
                    ![tasks[t].userId] = @ \o InsertedFacts(tasks[t].userId, tasks[t].toInsert)]
          ELSE UNCHANGED salient_memories
       /\ req' = IF ok THEN req ELSE LogBackgroundError(t)
  /\ UNCHANGED <<messages, memory_summary, personalities, apiKeySet, genAI, clock>>

\* checkAndSummarizeMemory: the message fetch returns; on enough rows, the prompt
\* is built from them oldest first and model.generateContent is issued
SummaryFetch(t) ==
  /\ tasks[t].pc = "sum_fetch"
  /\ \E ok \in BOOLEAN :
       LET msgs == SummaryQuery(messages[tasks[t].userId]) IN
       /\ IF ~ok THEN tasks' = [tasks EXCEPT ![t] = Finish(tasks[t], "fetch_failed")]
          ELSE IF Len(msgs) < SUMMARY_THRESHOLD
          THEN tasks' = [tasks EXCEPT ![t] = Finish(tasks[t], "too_few")]
          ELSE tasks' = [tasks EXCEPT ![t].pc = "sum_llm", ![t].window = Reverse(msgs),
                                      ![t].fetchedUpTo = msgs[1].timestamp]
       /\ req' = IF ok THEN req ELSE LogBackgroundError(t)
  /\ UNCHANGED <<store, apiKeySet, genAI, clock>>

\* mutant of GenerateSummaryThrows: a fixed failure text is returned to the caller,
\* which goes on to save it
GenerateSummaryReturnsSentinel(task) ==
  [task EXCEPT !.pc = "sum_save", !.summary = Some(<<"Failed to generate memory summary">>),
               !.outcome = "complete_failed", !.window = <<>>]

\* generateMemorySummary on a failed completion: throw new Error(...), caught and
\* logged by checkAndSummarizeMemory, which returns
GenerateSummaryThrows(task) == Finish(task, "complete_failed")

\* mutant of SummaryContent: the new text is appended to the stored summary
SummaryAppendedToPrior(task, text) ==
  LET prior == getMemorySummary(task.userId, TRUE) IN
  (IF prior = None THEN <<>> ELSE prior[1].content) \o Trim(text)

\* the summary handed to saveMemorySummaryInternal: response.text().trim()
SummaryContent(task, text) == Trim(text)

\* generateMemorySummary: model.generateContent returns or throws; on a text the
\* upsert of saveMemorySummaryInternal is issued with updated_at = new Date()
SummaryComplete(t) ==
  /\ tasks[t].pc = "sum_llm"
  /\ \/ /\ \E text \in SummaryAnswers :
             tasks' = [tasks EXCEPT ![t].pc = "sum_save",
                                    ![t].summary = Some(SummaryContent(tasks[t], text)),
                                    ![t].updated_at = clock, ![t].window = <<>>]
        /\ clock' = clock + 1
        /\ UNCHANGED req
     \/ /\ tasks' = [tasks EXCEPT ![t] = GenerateSummaryThrows(tasks[t])]
        /\ req' = LogBackgroundError(t)
        /\ UNCHANGED clock
  /\ UNCHANGED <<store, apiKeySet, genAI>>

\* mutant of Upsert: a stored row with a later updated_at is kept
UpsertIfNewer(rows, userId, content, updated_at) ==
  IF \E r \in rows : r.user_id = userId /\ r.updated_at > updated_at
  THEN rows
  ELSE {r \in rows : r.user_id # userId}
         \cup {[user_id |-> userId, content |-> content, updated_at |-> updated_at]}

\* mutant of Upsert: a plain insert, with no conflict target
UpsertAlwaysInserts(rows, userId, content, updated_at) ==
  rows \cup {[user_id |-> userId, content |-> content, updated_at |-> updated_at]}

\* mutant of Upsert: an empty summary text deletes the user's row
UpsertOrClear(rows, userId, content, updated_at) ==
  IF content = <<>> THEN {r \in rows : r.user_id # userId}
  ELSE {r \in rows : r.user_id # userId}
         \cup {[user_id |-> userId, content |-> content, updated_at |-> updated_at]}

\* upsert({ user_id, content, updated_at }, { onConflict: 'user_id' })
Upsert(rows, userId, content, updated_at) ==
  {r \in rows : r.user_id # userId}
    \cup {[user_id |-> userId, content |-> content, updated_at |-> updated_at]}

\* mutant of TurnsAfterSummary: the turns older than the summarized window are
\* deleted once the summary is saved
TurnsAfterSummaryPruned(rows) ==
  SubSeq(rows, Len(rows) - Min(Len(rows), MAX_MESSAGES_FOR_SUMMARY) + 1, Len(rows))

\* checkAndSummarizeMemory after saveMemorySummaryInternal has returned: a log
\* line and nothing else, the summarized turns stay stored
TurnsAfterSummary(rows) == rows

\* saveMemorySummaryInternal: the upsert returns
SaveSummary(t) ==
  /\ tasks[t].pc = "sum_save"
  /\ \E ok \in BOOLEAN :
       IF ok
       THEN /\ memory_summary' = Upsert(memory_summary, tasks[t].userId,
                                        tasks[t].summary[1], tasks[t].updated_at)
            /\ messages' = [messages EXCEPT ![tasks[t].userId] = TurnsAfterSummary(@)]
            /\ tasks' = [tasks EXCEPT ![t] = [Finish(tasks[t], "saved") EXCEPT
                                                !.savedAt = tasks[t].updated_at]]
            /\ UNCHANGED req
       ELSE /\ tasks' = [tasks EXCEPT ![t] = Finish(tasks[t], "save_failed")]
            /\ req' = LogBackgroundError(t)
            /\ UNCHANGED <<memory_summary, messages>>
  /\ UNCHANGED <<salient_memories, personalities, apiKeySet, genAI, clock>>

\* a model.generateContent call of a background evaluation that never returns
CompletionHangs(t) ==
  /\ tasks[t].pc \in {"ex_llm", "sum_llm"}
  /\ tasks' = [tasks EXCEPT ![t].pc = "hung"]
  /\ UNCHANGED <<store, apiKeySet, genAI, clock, req>>

processBackgroundMemory(t) ==
  \/ CountMessages(t)
  \/ ExtractionFetch(t)
  \/ ExtractionComplete(t)
  \/ ReadExistingFacts(t)
  \/ InsertFacts(t)
  \/ SummaryFetch(t)
  \/ SummaryComplete(t)
  \/ SaveSummary(t)
  \/ CompletionHangs(t)

\* ----------------------------------------------------------- specifications
\* n turns saved earlier for a user, alternately by the user and the model
StoredTurns(userId, n) ==
  [i \in 1..n |-> [user_id |-> userId, role |-> IF i % 2 = 1 THEN "user" ELSE "model",
                   content |-> <<"old">>, timestamp |-> i]]

\* The store after u1 has set a personality and exchanged n turns, no fact or
\* summary having been stored for them; u2 is a new user.
StoreAfter(n) ==
  /\ messages = [u \in Users |-> IF u = "u1" THEN StoredTurns(u, n) ELSE <<>>]
  /\ memory_summary = {}
  /\ salient_memories = [u \in Users |-> <<>>]
  /\ personalities = [u \in Users |-> IF u = "u1" THEN Some(<<"persona">>) ELSE None]

\* One chat request arrives at a server whose store holds any history of u1.
Init ==
  /\ \E n \in 0..MaxStoredTurns : StoreAfter(n)
  /\ apiKeySet \in BOOLEAN
  /\ genAI = FALSE
  /\ clock = 1
  /\ req = [r \in 1..1 |-> NewRequest]
  /\ tasks = <<>>

Next ==
  \/ \E r \in DOMAIN req : Receive(r)
  \/ \E r \in DOMAIN req : SaveUserMessage(r)
  \/ \E r \in DOMAIN req : GetRecentMessages(r)
  \/ \E r \in DOMAIN req : ReadPersonality(r)
  \/ \E r \in DOMAIN req : ReadMemorySummary(r)
  \/ \E r \in DOMAIN req : ReadSalientMemories(r)
  \/ \E r \in DOMAIN req : SendMessage(r)
  \/ \E r \in DOMAIN req : SaveModelMessage(r)
  \/ \E t \in DOMAIN tasks : CountMessages(t)
  \/ \E t \in DOMAIN tasks : ExtractionFetch(t)
  \/ \E t \in DOMAIN tasks : ExtractionComplete(t)
  \/ \E t \in DOMAIN tasks : ReadExistingFacts(t)
  \/ \E t \in DOMAIN tasks : InsertFacts(t)
  \/ \E t \in DOMAIN tasks : SummaryFetch(t)
  \/ \E t \in DOMAIN tasks : SummaryComplete(t)
  \/ \E t \in DOMAIN tasks : SaveSummary(t)
  \/ \E t \in DOMAIN tasks : CompletionHangs(t)

Spec == Init /\ [][Next]_vars

\* The event loop resumes a handler whenever the promise it awaits has settled,
\* and the calls the handler itself awaits do settle; nothing is assumed of the
\* background evaluations.
SpecHandlerFair == Spec /\ WF_vars(\E r \in DOMAIN req : chatHandler(r))

\* One chat request of a user whose history is about to reach, reaches or has
\* passed SUMMARY_THRESHOLD. The event loop resumes the handler as in
\* SpecHandlerFair, and it also resumes a background evaluation
\* whenever the call it awaits has settled; a store call settles, by returning
\* or failing, and a completion call returns, throws or hangs for good.
InitNearThreshold ==
  /\ \E n \in (SUMMARY_THRESHOLD - 2)..(SUMMARY_THRESHOLD + MaxTurnsPastThreshold) :
       StoreAfter(n)
  /\ apiKeySet \in BOOLEAN
  /\ genAI = FALSE
  /\ clock = 1
  /\ req = [r \in 1..1 |-> NewRequest]
  /\ tasks = <<>>

SpecBackgroundFair ==
  /\ InitNearThreshold
  /\ [][Next]_vars
  /\ WF_vars(\E r \in DOMAIN req : chatHandler(r))
  /\ WF_vars(\E t \in DOMAIN tasks : processBackgroundMemory(t))

\* The arguments of one buildPromptWithHistory call and the rows it reads, drawn
\* from bounded sets: up to MaxPromptTurns turns of any stored role, up to
\* MaxPromptFacts facts, no summary or one with or without content.
PromptRoles == {"user", "model", "bot"}

PromptTurns ==
  UNION {[1..n -> PromptRoles] : n \in 0..MaxPromptTurns}

PromptFacts ==
  UNION {[1..n -> {<<"a">>, <<"b">>}] : n \in 0..MaxPromptFacts}

PromptSummaries == {None, Some(<<>>), Some(<<"s">>)}

InitPrompt ==
  /\ \E roles \in PromptTurns, facts \in PromptFacts, summary \in PromptSummaries,
        userId \in Users, newMessage \in {<<"hello">>, <<"bye">>} :
       LET turns == [i \in 1..Len(roles) |->
                       [user_id |-> userId, role |-> roles[i],
                        content |-> <<"t", roles[i]>>, timestamp |-> i]] IN
       /\ messages = [u \in Users |-> IF u = userId THEN turns ELSE <<>>]
       /\ memory_summary =
            IF summary = None THEN {}
            ELSE {[user_id |-> "u1", content |-> summary[1], updated_at |-> 1]}
       /\ salient_memories =
            [u \in Users |->
               IF u = "u1"
               THEN [i \in 1..Len(facts) |->
                       [user_id |-> u, content |-> facts[i], timestamp |-> i]]
               ELSE <<>>]
       /\ req = [r \in 1..1 |->
                   [NewRequest EXCEPT !.pc = "persona", !.message = Some(newMessage),
                                      !.userId = userId, !.recentMessages = turns]]
  /\ personalities = [u \in Users |-> IF u = "u1" THEN Some(<<"persona">>) ELSE None]
  /\ apiKeySet = TRUE
  /\ genAI = TRUE
  /\ clock = 2
  /\ tasks = <<>>

NextPrompt ==
  \/ ReadPersonality(1)
  \/ ReadMemorySummary(1)
  \/ ReadSalientMemories(1)

SpecPrompt == InitPrompt /\ [][NextPrompt]_vars

\* One extraction run (extractSalientFacts, then saveNewSalientFacts) of u1, whose
\* count query read 5, against any stored facts and any answer of the completion
\* service: an answer is up to MaxAnswerLines lines, each of one of the forms
\* below; the stored facts are up to MaxExistingFacts different contents.
FactLineForms ==
  { <<"-", SP, "a">>, <<SP, "-", SP, "a", SP>>, <<"-", SP, SP, "a">>, <<"-", "a">>,
    <<"a">>, <<>>, <<"-", SP>>, <<"-", SP, "A">>, <<"-", SP, "b">>,
    <<"a", SP, "-", SP, "a">>, NoFacts }

FactAnswers ==
  {Join(lines, <<NL>>) :
     lines \in UNION {[1..n -> FactLineForms] : n \in 1..MaxAnswerLines}}

FactContents == {<<"a">>, <<"A">>, <<"a", ".">>}

ExistingFactLists ==
  {facts \in UNION {[1..n -> FactContents] : n \in 0..MaxExistingFacts} :
     \A i, j \in DOMAIN facts : facts[i] = facts[j] => i = j}

InitFacts ==
  /\ \E n \in {0, SALIENT_EXTRACTION_INTERVAL} :
       messages = [u \in Users |-> IF u = "u1" THEN StoredTurns(u, n) ELSE <<>>]
  /\ \E facts \in ExistingFactLists :
       salient_memories =
         [u \in Users |->
            IF u = "u1"
            THEN [i \in 1..Len(facts) |->
                    [user_id |-> u, content |-> facts[i], timestamp |-> i]]
            ELSE <<>>]
  /\ memory_summary = {}
  /\ personalities = [u \in Users |-> None]
  /\ apiKeySet = TRUE
  /\ genAI = TRUE
  /\ clock = 1
  /\ req = <<>>
  /\ tasks = << [NewTask("u1", 0, "user") EXCEPT
                   !.pc = "ex_fetch", !.count = SALIENT_EXTRACTION_INTERVAL,
                   !.ranExtraction = TRUE] >>

NextFacts ==
  \/ ExtractionFetch(1)
  \/ ExtractionReturns(1, FactAnswers)
  \/ ReadExistingFacts(1)
  \/ InsertFacts(1)
  \/ CompletionHangs(1)

SpecFacts == InitFacts /\ [][NextFacts]_vars

\* One chat request at a server with two users, each of them either new (no
\* row at all) or established: a personality, a summary, a fact and
\* SUMMARY_THRESHOLD + SALIENT_EXTRACTION_INTERVAL - 1 turns of their own, stored
\* by earlier exchanges, so that their next turn is due for both triggers.
Established(u) ==
  [turns |-> StoredTurns(u, SUMMARY_THRESHOLD + SALIENT_EXTRACTION_INTERVAL - 1),
   summaries |-> {[user_id |-> u, content |-> <<"s", "0", u>>, updated_at |-> 0]},
   facts |-> <<[user_id |-> u, content |-> <<"f", u>>, timestamp |-> 1]>>,
   personality |-> Some(<<"persona", u>>)]

NewUser(u) == [turns |-> <<>>, summaries |-> {}, facts |-> <<>>, personality |-> None]

InitIsolation ==
  /\ \E data \in [Users -> BOOLEAN] :
       LET of(u) == IF data[u] THEN Established(u) ELSE NewUser(u) IN
       /\ messages = [u \in Users |-> of(u).turns]
       /\ memory_summary = UNION {of(u).summaries : u \in Users}
       /\ salient_memories = [u \in Users |-> of(u).facts]
       /\ personalities = [u \in Users |-> of(u).personality]
  /\ apiKeySet = TRUE
  /\ genAI = FALSE
  /\ clock = 1
  /\ req = [r \in 1..1 |-> NewRequest]
  /\ tasks = <<>>

SpecIsolation == InitIsolation /\ [][Next]_vars

\* The executions of Spec in which every background evaluation has returned
\* before the next turn is saved and no store call fails: a step is one of
\* these if it saves a turn only when every evaluation started so far has
\* returned, and if no insert, select, count or upsert fails in it (a
\* completion call may still throw or hang).
StoreFailures == {"count_failed", "fetch_failed", "save_failed", "read_failed", "insert_failed"}

SerialStep ==
  /\ messages' # messages => \A t \in DOMAIN tasks : tasks[t].pc = "done"
  /\ \A t \in DOMAIN tasks :
       tasks'[t].outcome \notin StoreFailures /\ tasks'[t].exOutcome \notin StoreFailures
  /\ \A r \in DOMAIN req :
       req'[r].calls # req[r].calls
         => LET last == req'[r].calls[Len(req'[r].calls)] IN
            last.ok \/ last.call \in {"sendMessage", "initializeGeminiClient"}

NextSerial ==
  \/ \E r \in DOMAIN req : Receive(r) /\ SerialStep
  \/ \E r \in DOMAIN req : SaveUserMessage(r) /\ SerialStep
  \/ \E r \in DOMAIN req : GetRecentMessages(r) /\ SerialStep
  \/ \E r \in DOMAIN req : ReadPersonality(r) /\ SerialStep
  \/ \E r \in DOMAIN req : ReadMemorySummary(r) /\ SerialStep
  \/ \E r \in DOMAIN req : ReadSalientMemories(r) /\ SerialStep
  \/ \E r \in DOMAIN req : SendMessage(r) /\ SerialStep
  \/ \E r \in DOMAIN req : SaveModelMessage(r) /\ SerialStep
  \/ \E t \in DOMAIN tasks : CountMessages(t) /\ SerialStep
  \/ \E t \in DOMAIN tasks : ExtractionFetch(t) /\ SerialStep
  \/ \E t \in DOMAIN tasks : ExtractionComplete(t) /\ SerialStep
  \/ \E t \in DOMAIN tasks : ReadExistingFacts(t) /\ SerialStep
  \/ \E t \in DOMAIN tasks : InsertFacts(t) /\ SerialStep
  \/ \E t \in DOMAIN tasks : SummaryFetch(t) /\ SerialStep
  \/ \E t \in DOMAIN tasks : SummaryComplete(t) /\ SerialStep
  \/ \E t \in DOMAIN tasks : SaveSummary(t) /\ SerialStep
  \/ \E t \in DOMAIN tasks : CompletionHangs(t) /\ SerialStep

SpecSerial == Init /\ [][NextSerial]_vars

\* One call of the exported generateMemorySummary(messages) with any sequence of
\* up to MaxSummaryTurns turns, the empty one included, for a user with or
\* without a stored summary: the completion call returns, throws or hangs.
SummaryWindows ==
  UNION {[1..n -> {"user", "model"}] : n \in 0..MaxSummaryTurns}

InitSummary ==
  /\ \E roles \in SummaryWindows, userId \in Users, stored \in BOOLEAN :
       /\ tasks = << [NewTask(userId, 0, "user") EXCEPT
                        !.pc = "sum_llm", !.ranSummary = TRUE,
                        !.window = [i \in 1..Len(roles) |->
                                      [user_id |-> userId, role |-> roles[i],
                                       content |-> <<"t">>, timestamp |-> i]]] >>
       /\ memory_summary =
            IF stored THEN {[user_id |-> userId, content |-> <<"s", "0">>, updated_at |-> 0]}
            ELSE {}
  /\ messages = [u \in Users |-> <<>>]
  /\ salient_memories = [u \in Users |-> <<>>]
  /\ personalities = [u \in Users |-> None]
  /\ apiKeySet = TRUE
  /\ genAI = TRUE
  /\ clock = 1
  /\ req = <<>>

NextSummary ==
  \/ SummaryComplete(1)
  \/ CompletionHangs(1)

SpecSummary == InitSummary /\ [][NextSummary]_vars

\* ------------------------------------------------------------------ claims
Range(s) == {s[i] : i \in DOMAIN s}

IsPrefix(p, s) == Len(p) <= Len(s) /\ SubSeq(s, 1, Len(p)) = p

Occurs(p, s) == \E i \in 0..(Len(s) - Len(p)) : SubSeq(s, i + 1, i + Len(p)) = p

\* result is the min(N, limit) most recent of rows, oldest first
IsMostRecentWindow(result, rows, limit) ==
  /\ Len(result) = Min(Len(rows), limit)
  /\ \A i \in 1..(Len(result) - 1) : result[i].timestamp <= result[i + 1].timestamp
  /\ Range(result) \subseteq Range(rows)
  /\ \A x \in Range(result), y \in Range(rows) \ Range(result) : y.timestamp <= x.timestamp

\* C1: whenever getRecentMessages returns, for a user with N stored turns, it
\* returns exactly min(N,10) turns in ascending timestamp order, and they are the
\* min(N,10) most recently saved turns of that user (the tail of the log).
C1_RecentTurnsAreTheMostRecent ==
  [][\A r \in DOMAIN req :
       (req[r].pc = "fetch" /\ req'[r].pc = "persona")
         => IsMostRecentWindow(req'[r].recentMessages, messages[req[r].userId], 10)]_vars

\* the context of a request, position by position, from what the request read
ContextIsAsClaimed(q) ==
  LET h == q.history
      withSummary == q.memorySummary # None /\ q.memorySummary[1].content # <<>>
      off == IF withSummary THEN 4 ELSE 2
      n == Len(q.recentMessages)
  IN  /\ Len(h) = off + n + 1
      /\ h[1].role = "user"
      /\ Len(h[1].parts) = 1
      /\ IsPrefix(<<"System Prompt: ">> \o q.systemInstruction, h[1].parts[1].text)
      /\ \A i \in DOMAIN q.salientMemories :
           Occurs(<<"- ">> \o q.salientMemories[i].content, h[1].parts[1].text)
      /\ h[2] = [role |-> "model", parts |-> <<[text |-> PersonaAck]>>]
      /\ withSummary =>
           /\ h[3] = [role |-> "user",
                      parts |-> <<[text |-> <<"Previous Conversation Summary: ">>
                                              \o q.memorySummary[1].content]>>]
           /\ h[4] = [role |-> "model", parts |-> <<[text |-> SummaryAck]>>]
      /\ \A i \in 1..n :
           h[off + i] = [role |-> IF q.recentMessages[i].role = "user" THEN "user" ELSE "model",
                         parts |-> <<[text |-> q.recentMessages[i].content]>>]
      /\ h[off + n + 1] = [role |-> "user", parts |-> <<[text |-> q.message[1]]>>]

\* C2: buildPromptWithHistory returns the persona entry (with the facts), the
\* acknowledgement, the summary entry and its acknowledgement if and only if the
\* summary read has non-empty content, one entry per recent turn in the given
\* order (speaker user for role 'user', model otherwise), and the new message
\* as the final user entry.
C2_ContextSequence ==
  \A r \in DOMAIN req : req[r].pc = "complete" => ContextIsAsClaimed(req[r])

C2_Witness ==
  \E r \in DOMAIN req :
    /\ req[r].pc = "complete"
    /\ req[r].memorySummary # None /\ req[r].memorySummary[1].content = <<"s">>
    /\ Len(req[r].salientMemories) = 2
    /\ Len(req[r].recentMessages) = 2
    /\ req[r].recentMessages[2].role = "bot"
    /\ Len(req[r].history) = 7
    /\ req[r].history[6].role = "model"

Call(call, ok) == [call |-> call, ok |-> ok]

GenericFailureBody == [kind |-> "error", text |-> <<"Failed to generate response">>]

TasksBy(r) == {t \in DOMAIN tasks : tasks[t].by = r}

\* C4: when the save of the user's turn fails, the handler answers 500 with
\* 'Failed to generate response', the completion service is never called and
\* no model turn is saved.
C4_UserSaveFailure ==
  \A r \in DOMAIN req :
    Call("saveMessage:user", FALSE) \in Range(req[r].calls) =>
      /\ req[r].pc = "done"
      /\ req[r].status = 500
      /\ req[r].body = GenericFailureBody
      /\ \A i \in DOMAIN req[r].calls : req[r].calls[i].call # "sendMessage"
      /\ req[r].botResponseText = None
      /\ req[r].saved = <<>>
      /\ TasksBy(r) = {}

C4_Witness ==
  \E r \in DOMAIN req :
    /\ req[r].calls = <<Call("saveMessage:user", FALSE)>>
    /\ req[r].status = 500
    /\ req[r].message = Some(<<"hello">>)
    /\ Len(messages[req[r].userId]) = 3

\* C5: when the completion call fails, the handler answers 500 with 'Failed to
\* generate response'; the user's turn saved before stays in the store and no
\* model turn is saved.
C5_CompletionFailure ==
  \A r \in DOMAIN req :
    Call("sendMessage", FALSE) \in Range(req[r].calls) =>
      /\ req[r].pc = "done"
      /\ req[r].status = 500
      /\ req[r].body = GenericFailureBody
      /\ Len(req[r].saved) = 1
      /\ req[r].saved[1].role = "user"
      /\ req[r].saved[1].content = req[r].message[1]
      /\ req[r].saved[1] \in Range(messages[req[r].userId])
      /\ \A row \in Range(messages[req[r].userId]) :
           row.role = "model" => row.timestamp < req[r].saved[1].timestamp
      /\ \A t \in TasksBy(r) : tasks[t].role = "user"

C5_Witness ==
  \E r \in DOMAIN req :
    /\ req[r].status = 500
    /\ req[r].calls[Len(req[r].calls)] = Call("sendMessage", FALSE)
    /\ Len(messages[req[r].userId]) = 3
    /\ messages[req[r].userId][3].content = <<"hello">>

\* C6: on success the handler saves the user's turn, fetches the recent turns,
\* assembles the context, calls the completion service and saves the model
\* turn, in that order; exactly two turns are saved, the user's with the
\* message and then the model's, whose content is the completion text, which is
\* also the response body.
C6_SuccessfulExchange ==
  \A r \in DOMAIN req :
    req[r].status = 200 =>
      /\ req[r].pc = "done"
      /\ req[r].calls = << Call("saveMessage:user", TRUE), Call("getRecentMessages", TRUE),
                           Call("buildPromptWithHistory", TRUE), Call("sendMessage", TRUE),
                           Call("saveMessage:model", TRUE) >>
      /\ Len(req[r].saved) = 2
      /\ req[r].saved[1].role = "user"
      /\ req[r].saved[1].content = req[r].message[1]
      /\ req[r].saved[2].role = "model"
      /\ req[r].saved[2].content = req[r].botResponseText[1]
      /\ req[r].saved[1].timestamp < req[r].saved[2].timestamp
      /\ {req[r].saved[1], req[r].saved[2]} \subseteq Range(messages[req[r].userId])
      /\ req[r].body = [kind |-> "response", text |-> req[r].botResponseText[1]]
      /\ req[r].botResponseText[1] \in ChatReplies

C6_Witness ==
  \E r \in DOMAIN req :
    /\ req[r].status = 200
    /\ req[r].body.text = <<"reply">>
    /\ Len(messages[req[r].userId]) = 2
    /\ messages[req[r].userId][1].content = <<"hello">>
    /\ messages[req[r].userId][2].content = <<"reply">>

\* C7: whichever step of a background evaluation fails (count, extraction,
\* summarization), no step of the evaluation changes a request (the turn its
\* saveMessage returned, its position, its response) or the message log, and a
\* save made after the failure, if its insert succeeds, stores its turn and is
\* answered as usual.
C7_BackgroundFailureContained ==
  [][ /\ (\E t \in DOMAIN tasks : processBackgroundMemory(t))
           => (req' = req /\ messages' = messages)
      /\ \A r \in DOMAIN req :
           ( /\ req[r].pc = "save_model"
             /\ req'[r].calls = Append(req[r].calls, Call("saveMessage:model", TRUE)) )
             => /\ req'[r].status = 200
                /\ Len(req'[r].saved) = 2
                /\ Len(messages'[req[r].userId]) = Len(messages[req[r].userId]) + 1
                /\ Len(tasks') = Len(tasks) + 1 ]_vars

C7_Witness ==
  \E r \in DOMAIN req :
    /\ req[r].status = 200
    /\ Len(req[r].saved) = 2
    /\ Len(tasks) = 2
    /\ tasks[1].by = r /\ tasks[1].role = "user"
    /\ tasks[1].ranExtraction /\ tasks[1].outcome = "complete_failed"
    /\ tasks[2].outcome = "count_failed"

InFlight(r) == req[r].pc \notin {"idle", "done"}

\* C8: saveMessage returns without waiting for the background evaluation it
\* started: a handler that is not finished can always take its next step,
\* whatever the evaluations are doing, and so every request received is
\* answered, even if a background completion call never returns.
C8_HandlerNeverWaitsForBackground ==
  /\ [](\A r \in DOMAIN req : InFlight(r) => ENABLED chatHandler(r))
  /\ (\E r \in DOMAIN req : InFlight(r)) ~> (\A r \in DOMAIN req : req[r].pc = "done")

C8_Witness ==
  \E r \in DOMAIN req :
    /\ req[r].status = 200
    /\ \E t \in TasksBy(r) : tasks[t].role = "user" /\ tasks[t].pc = "hung"
    /\ \E t \in TasksBy(r) : tasks[t].role = "model" /\ tasks[t].pc = "count"

\* C9: fact extraction runs if and only if the count read is a positive multiple
\* of 5: never for 0, 1, 4 or 6, always for 5, 10 and 15.
C9_ExtractionTrigger ==
  /\ \A t \in DOMAIN tasks :
       tasks[t].count >= 0 =>
         (tasks[t].ranExtraction <=> (tasks[t].count > 0 /\ tasks[t].count % 5 = 0))
  /\ \A t \in DOMAIN tasks :
       tasks[t].pc \in {"ex_fetch", "ex_llm", "ex_read", "ex_insert"} => tasks[t].ranExtraction
  /\ \A n \in {0, 1, 4, 6} : ~ShouldExtract(n)
  /\ \A n \in {5, 10, 15} : ShouldExtract(n)

C9_Witness ==
  /\ Len(tasks) = 2
  /\ tasks[1].count = 5 /\ tasks[1].ranExtraction /\ tasks[1].pc = "done"
  /\ tasks[2].count = 6 /\ ~tasks[2].ranExtraction /\ tasks[2].pc = "done"
  /\ Len(salient_memories["u1"]) = 2

SummaryFailures == {"fetch_failed", "complete_failed", "save_failed"}

StoredFacts(u) == [i \in DOMAIN salient_memories[u] |-> salient_memories[u][i].content]

\* the candidates that equal no stored fact, piece by piece
Remainder(candidates, existing) ==
  SelectSeq(candidates, LAMBDA c : \A i \in DOMAIN existing : existing[i] # c)

\* C11: saveNewSalientFacts, for every stored facts E and candidates C: when the
\* read of E succeeds, the insert carries exactly the candidates equal to no
\* element of E as exact strings, in order, and no insert is issued when none
\* remains; a successful insert appends exactly those to the user's facts.
C11_ExactDeduplication ==
  [][\A t \in DOMAIN tasks :
       LET u == tasks[t].userId
           rem == Remainder(tasks[t].facts, StoredFacts(u)) IN
       /\ (tasks[t].pc = "ex_read" /\ tasks'[t].pc # "ex_read"
             /\ tasks'[t].exOutcome # "read_failed") =>
            /\ salient_memories' = salient_memories
            /\ IF rem = <<>>
               THEN tasks'[t].pc # "ex_insert" /\ tasks'[t].exOutcome = "nothing_new"
               ELSE tasks'[t].pc = "ex_insert" /\ tasks'[t].toInsert = rem
       /\ (tasks[t].pc = "ex_insert" /\ tasks'[t].exOutcome = "inserted") =>
            /\ tasks[t].toInsert = rem
            /\ [i \in DOMAIN salient_memories'[u] |-> salient_memories'[u][i].content]
                 = StoredFacts(u) \o rem
       /\ (tasks[t].pc = "ex_insert" /\ tasks'[t].exOutcome = "insert_failed") =>
            salient_memories' = salient_memories ]_vars

C11_Witness ==
  /\ StoredFacts("u1") = << <<"a", ".">>, <<"A">>, <<"a">>, <<"b">> >>
  /\ tasks[1].rawText = <<"-", SP, "a", NL, "-", SP, "b">>
  /\ tasks[1].exOutcome = "inserted"


\* C12: in every state reached by extraction runs that do not overlap (here one
\* run over stored facts that are all different), no two stored salient facts of
\* one user have the same content, whatever the completion service answers.
C12_NoDuplicateFacts ==
  \A u \in Users :
    \A i, j \in DOMAIN salient_memories[u] :
      salient_memories[u][i].content = salient_memories[u][j].content => i = j


\* C13: the insert of an extraction run stores every fact the run kept after its
\* own read of the existing facts, also a fact another run of the same user has
\* stored since that read: two runs that interleave between read and insert
\* both insert the same content, and the store then holds it twice.
C13_InterleavedRunsInsertTwice ==
  [][\A t \in DOMAIN tasks :
       (tasks[t].pc = "ex_insert" /\ tasks'[t].exOutcome = "inserted") =>
         LET u == tasks[t].userId IN
         /\ Len(salient_memories'[u]) = Len(salient_memories[u]) + Len(tasks[t].toInsert)
         /\ \A i \in DOMAIN tasks[t].toInsert :
              salient_memories'[u][Len(salient_memories[u]) + i].content = tasks[t].toInsert[i]
         /\ \A i \in DOMAIN salient_memories[u] :
              salient_memories'[u][i] = salient_memories[u][i] ]_vars

C13_Witness ==
  /\ Len(tasks) = 2
  /\ tasks[1].userId = tasks[2].userId
  /\ tasks[1].rawText = <<"-", SP, "a">> /\ tasks[1].exOutcome = "inserted"
  /\ tasks[2].rawText = <<"-", SP, "a">> /\ tasks[2].exOutcome = "inserted"
  /\ StoredFacts(tasks[1].userId) = << <<"a">>, <<"a">> >>


\* C14 as stated: when the completion call of generateMemorySummary fails, the
\* operation hands a fixed failure string back to its caller instead of raising,
\* so that the caller goes on with that string.
C14_SentinelReturned ==
  [][\A t \in DOMAIN tasks :
       (tasks[t].pc = "sum_llm" /\ tasks'[t].outcome = "complete_failed") =>
         (tasks'[t].pc = "sum_save" /\ tasks'[t].summary # None)]_vars

\* C14: when the completion call of generateMemorySummary fails, the operation
\* raises; checkAndSummarizeMemory catches the error, so the run ends there with
\* no summary to save, no summary row written, and no request or stored turn
\* touched.
C14_FailureRaisedAndCaught ==
  [][\A t \in DOMAIN tasks :
       (tasks[t].pc = "sum_llm" /\ tasks'[t].outcome = "complete_failed") =>
         /\ tasks'[t].pc = "done"
         /\ tasks'[t].summary = None
         /\ memory_summary' = memory_summary
         /\ messages' = messages
         /\ req' = req]_vars

C14_Witness ==
  \E t \in DOMAIN tasks :
    /\ tasks[t].count = 40
    /\ tasks[t].pc = "done"
    /\ tasks[t].outcome = "complete_failed"
    /\ memory_summary = {}


SummariesOf(rows, u) == {row \in rows : row.user_id = u}

\* C15: each user has at most one summary row in every reachable state; a
\* successful save creates the row when the user has none and otherwise replaces
\* the content and updated_at of the user's row, leaving the other users' rows
\* alone, also when two summarization runs of the user overlap.
C15_OneSummaryPerUser ==
  /\ [](\A u \in Users : Cardinality(SummariesOf(memory_summary, u)) <= 1)
  /\ [][\A t \in DOMAIN tasks :
          (tasks[t].pc = "sum_save" /\ tasks'[t].outcome = "saved") =>
            LET u == tasks[t].userId IN
            /\ SummariesOf(memory_summary', u) =
                 {[user_id |-> u, content |-> tasks[t].summary[1],
                   updated_at |-> tasks[t].updated_at]}
            /\ \A v \in Users \ {u} :
                 SummariesOf(memory_summary', v) = SummariesOf(memory_summary, v)]_vars

C15_Witness ==
  /\ Len(tasks) = 2
  /\ tasks[1].userId = tasks[2].userId
  /\ tasks[1].pc = "sum_save" /\ tasks[1].summary = Some(<<"s", "1">>)
  /\ tasks[2].outcome = "saved"
  /\ memory_summary = {[user_id |-> tasks[1].userId, content |-> <<"s", "2">>, updated_at |-> 1]}

\* the text without its leading and trailing white space
Stripped(text) ==
  LET black == {i \in DOMAIN text : text[i] \notin {" ", "\n"}} IN
  IF black = {} THEN <<>>
  ELSE SubSeq(text, CHOOSE i \in black : \A j \in black : i <= j,
                    CHOOSE i \in black : \A j \in black : j <= i)

\* C16: the content a summarization run writes is the completion service's answer
\* to the window it fetched, trimmed, and nothing else: the summary stored before
\* is neither read nor merged into it, and after the save the user's row carries
\* exactly that content.
C16_SummaryRegeneratedFresh ==
  [][\A t \in DOMAIN tasks :
       /\ (tasks[t].pc = "sum_llm" /\ tasks'[t].pc = "sum_save") =>
            \E text \in SummaryAnswers : tasks'[t].summary = <<Stripped(text)>>
       /\ (tasks[t].pc = "sum_save" /\ tasks'[t].outcome = "saved") =>
            /\ \E text \in SummaryAnswers : tasks[t].summary = <<Stripped(text)>>
            /\ \A row \in SummariesOf(memory_summary', tasks[t].userId) :
                 row.content = tasks[t].summary[1] ]_vars

C16_Witness ==
  /\ Len(tasks) = 2
  /\ tasks[1].outcome = "saved" /\ tasks[1].updated_at = 0
  /\ tasks[2].outcome = "saved"
  /\ \E row \in memory_summary : row.content = <<"s", "2">> /\ row.updated_at = 2

\* C17: a summarization run over a user with N stored turns hands the summarizer
\* exactly the min(N,50) most recent turns by timestamp, oldest first.
C17_SummaryWindow ==
  [][\A t \in DOMAIN tasks :
       (tasks[t].pc = "sum_fetch" /\ tasks'[t].pc = "sum_llm") =>
         /\ IsMostRecentWindow(tasks'[t].window, messages[tasks[t].userId], 50)
         /\ \A i \in 1..(Len(tasks'[t].window) - 1) :
              tasks'[t].window[i].timestamp < tasks'[t].window[i + 1].timestamp ]_vars

C17_Witness ==
  \E t \in DOMAIN tasks :
    /\ tasks[t].pc = "sum_llm"
    /\ Len(messages[tasks[t].userId]) = 53
    /\ Len(tasks[t].window) = 50
    /\ tasks[t].window[1].timestamp = 4
    /\ tasks[t].window[50].timestamp = 53


\* C18: if the read of the user's existing facts fails during an extraction run,
\* the run issues no insert, neither at that step nor later, and the user's
\* stored facts stay as they were.
C18_FailedReadInsertsNothing ==
  [][\A t \in DOMAIN tasks :
       /\ (tasks[t].pc = "ex_read" /\ tasks'[t].exOutcome = "read_failed") =>
            /\ tasks'[t].pc \notin {"ex_read", "ex_insert"}
            /\ tasks'[t].toInsert = <<>>
            /\ salient_memories' = salient_memories
       /\ tasks[t].exOutcome = "read_failed" =>
            /\ tasks'[t].pc # "ex_insert"
            /\ salient_memories'[tasks[t].userId] = salient_memories[tasks[t].userId] ]_vars

C18_Witness ==
  /\ tasks[1].rawText = <<"-", SP, "b">>
  /\ tasks[1].exOutcome = "read_failed"
  /\ tasks[1].pc = "done"
  /\ StoredFacts("u1") = << <<"a">> >>


\* the lines of a text: what stands between its line breaks
LinesOf(text) ==
  LET breaks == {i \in DOMAIN text : text[i] = "\n"}
      n == Cardinality(breaks)
      cut(k) == IF k = 0 THEN 0
                ELSE IF k = n + 1 THEN Len(text) + 1
                ELSE CHOOSE i \in breaks : Cardinality({j \in breaks : j < i}) = k - 1
  IN [k \in 1..(n + 1) |-> SubSeq(text, cut(k - 1) + 1, cut(k) - 1)]

\* a line that starts with the marker "- " once trimmed
IsMarked(line) ==
  LET l == Stripped(line) IN Len(l) >= 2 /\ l[1] = "-" /\ l[2] = " "

MarkedLinesOf(text) == SelectSeq(LinesOf(text), IsMarked)

\* one fact per marked line: the trimmed line without its marker
FactsMarkerStripped(text) ==
  LET marked == MarkedLinesOf(text) IN
  [i \in DOMAIN marked |-> SubSeq(Stripped(marked[i]), 3, Len(Stripped(marked[i])))]

\* one fact per marked line: the trimmed line without its marker, trimmed again
FactsMarkerStrippedAndTrimmed(text) ==
  LET marked == MarkedLinesOf(text) IN
  [i \in DOMAIN marked |-> Stripped(SubSeq(Stripped(marked[i]), 3, Len(Stripped(marked[i]))))]

\* extractSalientFacts returned [] at this step: nothing is read or inserted
ReturnedNoFact(t) ==
  /\ tasks'[t].pc \notin {"ex_fetch", "ex_llm", "ex_read", "ex_insert"}
  /\ tasks'[t].facts = <<>>
  /\ salient_memories' = salient_memories

\* extractSalientFacts returns nothing on a failed or empty fetch, on a failed
\* completion, on the sentinel and on an empty text, and Facts(answer) otherwise
ExtractionResultIs(Facts(_)) ==
  \A t \in DOMAIN tasks :
    /\ (tasks[t].pc = "ex_fetch" /\ tasks'[t].pc # "ex_fetch") =>
         IF tasks'[t].exOutcome = "fetch_failed" \/ messages[tasks[t].userId] = <<>>
         THEN ReturnedNoFact(t)
         ELSE tasks'[t].pc = "ex_llm"
    /\ (tasks[t].pc = "ex_llm" /\ tasks'[t].pc \notin {"ex_llm", "hung"}) =>
         IF \/ tasks'[t].exOutcome = "complete_failed"
            \/ tasks'[t].rawText \in {<<"No new important facts.">>, <<>>}
            \/ Facts(tasks'[t].rawText) = <<>>
         THEN ReturnedNoFact(t)
         ELSE tasks'[t].pc = "ex_read" /\ tasks'[t].facts = Facts(tasks'[t].rawText)

\* C19 as stated: extractSalientFacts returns the empty sequence when the
\* completion fails, on the sentinel or an empty answer, and when the fetch fails
\* or finds no turn; otherwise, in order, one fact per response line that starts
\* with '- ' after trimming, which is that line with the marker stripped.
C19_FactsAreLinesWithoutMarker ==
  [][ExtractionResultIs(FactsMarkerStripped)]_vars

\* C19: as above, except that each fact is the trimmed line with the marker
\* stripped and the rest trimmed again ('-  a' gives 'a').
C19_FactsAreTrimmedLinesWithoutMarker ==
  [][ExtractionResultIs(FactsMarkerStrippedAndTrimmed)]_vars

C19_Witness ==
  /\ tasks[1].pc = "ex_read"
  /\ tasks[1].rawText = <<"-", SP, SP, "a", NL, SP, "-", SP, "a", SP>>
  /\ tasks[1].facts = << <<"a">>, <<"a">> >>


InExtraction(task) == task.pc \in {"ex_fetch", "ex_llm", "ex_read", "ex_insert"}

BothTriggers(n) == n > 0 /\ n % 5 = 0 /\ n >= 40

SaveSettles(r, ok) ==
  \E call \in {"saveMessage:user", "saveMessage:model"} :
    req'[r].calls = Append(req[r].calls, Call(call, ok))

\* C21: every saveMessage that returns, for a user turn or a model turn, starts
\* exactly one background evaluation, for the user of the saved turn, and that
\* evaluation has read nothing yet while the turn is already the last row of the
\* user's turn log; a saveMessage whose insert fails starts none and stores
\* nothing; and no other step starts one: the number of evaluations grows by
\* exactly the number of saves that returned in the step.
C21_SaveStartsOneEvaluation ==
  [][ LET returned == {r \in DOMAIN req : SaveSettles(r, TRUE)}
          new == tasks'[Len(tasks')] IN
      /\ Len(tasks') = Len(tasks) + Cardinality(returned)
      /\ SubSeq(tasks', 1, Len(tasks)) # tasks
           => \E t \in DOMAIN tasks : processBackgroundMemory(t)
      /\ \A r \in returned :
           LET row == req'[r].saved[Len(req'[r].saved)] IN
           /\ new.userId = req[r].userId
           /\ new.by = r
           /\ new.role = row.role
           /\ new.pc = "count"
           /\ new.count = -1
           /\ ~new.ranExtraction /\ ~new.ranSummary
           /\ messages'[new.userId] = Append(messages[new.userId], row)
      /\ \A r \in DOMAIN req :
           SaveSettles(r, FALSE) => tasks' = tasks /\ messages' = messages
    ]_vars

C21_Witness ==
  /\ Len(tasks) = 2
  /\ Len(req[1].saved) = 2
  /\ tasks[1].role = "user" /\ tasks[2].role = "model"
  /\ tasks[1].userId = req[1].userId /\ tasks[2].userId = req[1].userId
  /\ tasks[1].by = 1 /\ tasks[2].by = 1

\* how far an evaluation has come: the awaits of processBackgroundMemory in
\* program order
Position(pc) ==
  CASE pc = "count" -> 0
    [] pc = "ex_fetch" -> 1
    [] pc = "ex_llm" -> 2
    [] pc = "ex_read" -> 3
    [] pc = "ex_insert" -> 4
    [] pc = "sum_fetch" -> 5
    [] pc = "sum_llm" -> 6
    [] pc = "sum_save" -> 7
    [] OTHER -> 8

\* C22: one background evaluation reads the turn count once (in its first
\* step, and the count it read never changes), enters extraction at most once
\* and summarization at most once, and only moves forward: no step returns it to
\* an earlier position, so nothing that failed is run again, and an evaluation
\* that has returned or hangs takes no further step.
C22_OneAttemptPerEvaluation ==
  [][ \A t \in DOMAIN tasks :
        LET a == tasks[t]
            b == tasks'[t] IN
        b # a =>
          /\ Position(b.pc) > Position(a.pc)
          /\ a.pc \notin {"done", "hung"}
          /\ a.pc = "count" => a.count = -1 /\ (b.count >= 0 \/ b.outcome = "count_failed")
          /\ a.pc # "count" => b.count = a.count
          /\ a.ranExtraction => b.ranExtraction
          /\ a.ranSummary => b.ranSummary
          /\ (b.ranExtraction /\ ~a.ranExtraction) => a.pc = "count" /\ b.pc = "ex_fetch"
          /\ (b.ranSummary /\ ~a.ranSummary) => b.pc = "sum_fetch"
          /\ b.pc = "ex_fetch" => ~a.ranExtraction
          /\ b.pc = "sum_fetch" => ~a.ranSummary
          /\ a.outcome # "none" => FALSE
    ]_vars

C22_Witness ==
  \E t \in DOMAIN tasks :
    /\ tasks[t].pc = "done"
    /\ tasks[t].count = SUMMARY_THRESHOLD
    /\ tasks[t].ranExtraction /\ tasks[t].exOutcome \in ExtractionFailures
    /\ tasks[t].ranSummary /\ tasks[t].outcome \in SummaryFailures

\* C23: no step updates or deletes a stored turn: in every step every user's
\* turn log is extended at its end or left as it is (the earlier rows keep
\* their place and their fields), so the turn count never decreases.
C23_TurnLogOnlyGrows ==
  [][ \A u \in Users :
        /\ IsPrefix(messages[u], messages'[u])
        /\ CountQuery(messages'[u]) >= CountQuery(messages[u])
    ]_vars

C23_Witness ==
  \E u \in Users :
    /\ Len(req[1].saved) = 2
    /\ Len(messages[u]) > MAX_MESSAGES_FOR_SUMMARY
    /\ messages[u] = StoredTurns(u, Len(messages[u]) - 2) \o req[1].saved
    /\ \E t \in DOMAIN tasks : tasks[t].userId = u /\ tasks[t].outcome = "saved"
    /\ \E t \in DOMAIN tasks : tasks[t].userId = u /\ tasks[t].exOutcome = "inserted"

\* C24: no step updates or deletes a stored fact or removes a summary: in every
\* step every user's facts are extended at the end or left as they are, and a
\* user who has a summary row before the step has one after it.
C24_FactsAndSummaryStay ==
  [][ \A u \in Users :
        /\ IsPrefix(salient_memories[u], salient_memories'[u])
        /\ SummariesOf(memory_summary, u) # {} => SummariesOf(memory_summary', u) # {}
    ]_vars

C24_Witness ==
  \E t1, t2 \in DOMAIN tasks :
    /\ t1 # t2
    /\ tasks[t1].userId = tasks[t2].userId
    /\ tasks[t1].outcome = "saved" /\ tasks[t2].outcome = "saved"
    /\ tasks[t1].exOutcome = "inserted" /\ tasks[t2].exOutcome = "inserted"
    /\ Len(salient_memories[tasks[t1].userId]) >= 2
    /\ SummariesOf(memory_summary, tasks[t1].userId) # {}

\* C25: saving a turn, the background evaluation with its extraction and its
\* summarization, and the context assembly leave every user's persona as it
\* is: no step of them changes the personalities table, and the assembly reads
\* it: the instruction it takes is the user's stored description or the default.
C25_PersonaOnlyRead ==
  [][ /\ personalities' = personalities
      /\ \A r \in DOMAIN req :
           (req[r].pc = "persona" /\ req'[r].pc = "summary")
             => req'[r].systemInstruction
                  \in {DEFAULT_PERSONALITY}
                        \cup {personalities[req[r].userId][i] :
                                i \in DOMAIN personalities[req[r].userId]}
    ]_vars

C25_Witness ==
  /\ req[1].pc = "done" /\ req[1].status = 200
  /\ req[1].systemInstruction = <<"persona">>
  /\ personalities[req[1].userId] = Some(<<"persona">>)
  /\ Len(tasks) = 2
  /\ \A t \in DOMAIN tasks : tasks[t].outcome = "saved" /\ tasks[t].exOutcome = "inserted"

\* the place in the user's turn log of the turn whose save started evaluation t
OwnPosition(t) ==
  (CHOOSE row \in Range(req[tasks[t].by].saved) : row.role = tasks[t].role).timestamp

HasRead(t) == tasks[t].count >= 0

\* the evaluation has come to its second trigger (line 110)
PastExtraction(t) == tasks[t].pc \in {"sum_fetch", "sum_llm", "sum_save", "done"}

\* C26: an evaluation reads the count as it is when its query runs. So when two
\* turns of a user are saved before either evaluation has read (the evaluation
\* of the earlier turn reads a count that includes the later turn), both read
\* the same count, both take the same decisions (the extraction trigger runs in
\* both or in neither, and so does the summarization trigger once both have
\* come to it), and the count of the earlier turn is read by no evaluation: if
\* that was a multiple of 5, its extraction runs in neither. Through all of it
\* the turn log holds the earlier turns followed by the saved ones, and a user
\* has at most one summary.
C26_RacingEvaluationsReadSameCount ==
  /\ [][ \A t \in DOMAIN tasks :
           (~HasRead(t) /\ tasks'[t].count >= 0)
             => tasks'[t].count = Len(messages[tasks[t].userId]) ]_vars
  /\ [](\A t1, t2 \in DOMAIN tasks :
          (/\ tasks[t1].userId = tasks[t2].userId
           /\ OwnPosition(t1) < OwnPosition(t2)
           /\ HasRead(t1) /\ HasRead(t2)
           /\ tasks[t1].count >= OwnPosition(t2))
            => /\ tasks[t1].count = tasks[t2].count
               /\ tasks[t1].ranExtraction = tasks[t2].ranExtraction
               /\ (PastExtraction(t1) /\ PastExtraction(t2))
                    => tasks[t1].ranSummary = tasks[t2].ranSummary
               /\ \A t \in DOMAIN tasks :
                    tasks[t].userId = tasks[t1].userId
                      => tasks[t].count # OwnPosition(t1)
               /\ OwnPosition(t1) % SALIENT_EXTRACTION_INTERVAL = 0
                    => \A t \in DOMAIN tasks :
                         tasks[t].userId = tasks[t1].userId => ~tasks[t].ranExtraction)
  /\ [](\A u \in Users :
          /\ \A i \in DOMAIN messages[u] : messages[u][i].timestamp = i
          /\ \A r \in DOMAIN req :
               req[r].userId = u /\ req[r].pc # "idle"
                 => messages[u]
                      = StoredTurns(u, Len(messages[u]) - Len(req[r].saved)) \o req[r].saved
          /\ Cardinality(SummariesOf(memory_summary, u)) <= 1
          /\ \A i \in DOMAIN salient_memories[u] : salient_memories[u][i].user_id = u)

C26_Witness ==
  /\ Len(tasks) = 2
  /\ tasks[1].pc = "done" /\ tasks[2].pc = "done"
  /\ OwnPosition(1) = SALIENT_EXTRACTION_INTERVAL
  /\ tasks[1].count = SALIENT_EXTRACTION_INTERVAL + 1
  /\ tasks[2].count = SALIENT_EXTRACTION_INTERVAL + 1
  /\ ~tasks[1].ranExtraction /\ ~tasks[2].ranExtraction
  /\ Len(messages[tasks[1].userId]) = SALIENT_EXTRACTION_INTERVAL + 1

\* evaluation t has returned or hangs
Settled(t) == tasks[t].pc \in {"done", "hung"}

\* a store call or a completion call that summarization needs failed or hangs
\* in evaluation t
SummaryCallFailed(t) ==
  \/ tasks[t].pc = "hung"
  \/ tasks[t].outcome = "count_failed"
  \/ tasks[t].outcome \in SummaryFailures

HasSummary(u) == SummariesOf(memory_summary, u) # {}

\* evaluation t was started by the save of a turn that was at least the 40th
StartedAtThreshold(t) == t \in DOMAIN tasks /\ OwnPosition(t) >= SUMMARY_THRESHOLD

\* C27: once a user has 40 stored turns, the evaluation started by every
\* further save attempts summarization, whatever earlier evaluations did: when
\* it comes to the second trigger it enters checkAndSummarizeMemory, and it ends
\* with the user's summary stored unless one of its own calls (the count query,
\* the message fetch, a completion call, the upsert) failed or hangs. So of the
\* evaluations started by the saves that keep coming, the first whose calls all
\* succeed stores the summary that earlier ones missed or failed to store.
C27_SummarizationMadeUpLater ==
  /\ [](\A t \in DOMAIN tasks :
          (OwnPosition(t) >= SUMMARY_THRESHOLD /\ HasRead(t) /\ PastExtraction(t))
            => tasks[t].ranSummary)
  /\ \A t \in 1..2 :
       StartedAtThreshold(t)
         ~> (/\ t \in DOMAIN tasks
             /\ Settled(t)
             /\ SummaryCallFailed(t) \/ HasSummary(tasks[t].userId))

C27_Witness ==
  /\ Len(tasks) = 2
  /\ tasks[1].count >= SUMMARY_THRESHOLD
  /\ tasks[1].outcome \in SummaryFailures
  /\ OwnPosition(2) > SUMMARY_THRESHOLD
  /\ tasks[2].outcome = "saved"
  /\ HasSummary(tasks[2].userId)

\* the facts from the i-th on, one "- " line each, joined by line feeds
RECURSIVE Bulleted(_, _)
Bulleted(facts, i) ==
  IF i > Len(facts) THEN <<>>
  ELSE <<"- ">> \o facts[i].content
         \o (IF i < Len(facts) THEN <<NL>> ELSE <<>>) \o Bulleted(facts, i + 1)

\* C28: the facts add no entry to the assembled context. The first entry is
\* "System Prompt: " and the persona, followed, only when there is at least one
\* fact, by the heading and the facts as "- " lines; the second entry is the
\* acknowledgement; no later entry holds a fact line. The context has
\* 3 + |recent turns| entries without a summary (or with an empty one) and
\* 5 + |recent turns| with a non-empty summary, whatever the number of facts.
C28_FactsAddNoEntry ==
  \A r \in DOMAIN req :
    req[r].pc = "complete" =>
      LET h == req[r].history
          facts == req[r].salientMemories
          n == Len(req[r].recentMessages)
          summarized == req[r].memorySummary # None /\ req[r].memorySummary[1].content # <<>>
      IN  /\ Len(h) = (IF summarized THEN 5 ELSE 3) + n
          /\ h[1].role = "user"
          /\ h[1].parts
               = << [text |-> <<"System Prompt: ">> \o req[r].systemInstruction
                                \o (IF Len(facts) >= 1
                                    THEN <<NL, NL, "Things to remember about the user:", NL>>
                                           \o Bulleted(facts, 1)
                                    ELSE <<>>)] >>
          /\ h[2] = [role |-> "model", parts |-> <<[text |-> PersonaAck]>>]
          /\ \A i \in 2..Len(h) :
               /\ ~Occurs(<<"- ">>, h[i].parts[1].text)
               /\ ~Occurs(<<"Things to remember about the user:">>, h[i].parts[1].text)

C28_Witness ==
  \E r \in DOMAIN req :
    /\ req[r].pc = "complete"
    /\ req[r].memorySummary = None
    /\ Len(req[r].salientMemories) = 2
    /\ Len(req[r].recentMessages) = 2
    /\ Len(req[r].history) = 5
    /\ Occurs(<<"- ", "a", NL, "- ", "b">>, req[r].history[1].parts[1].text)

\* the user entry that states a summary
IsSummaryEntry(entry) ==
  entry.role = "user" /\ StartsWith(entry.parts[1].text, <<"Previous Conversation Summary: ">>)

\* C29: the summary and fact lookups never make context assembly fail. The
\* summary lookup always hands the assembly on to the fact lookup, with null
\* when the user has no summary row and with null or the user's latest row
\* otherwise (null being what a failed query gives); the fact lookup always
\* completes the assembly, with the user's facts or, on a failed query, with
\* none. The context built after a null summary has no summary entries, and
\* the one built after an empty fact list has no fact list in its first entry.
C29_LookupFailuresDegrade ==
  [][ \A r \in DOMAIN req :
        LET u == req[r].userId
            rows == SummariesOf(memory_summary, u)
            h == req'[r].history
            n == Len(req[r].recentMessages) IN
        /\ (req[r].pc = "summary" /\ req'[r] # req[r])
             => /\ req'[r].pc = "facts"
                /\ req'[r].status = 0
                /\ rows = {} => req'[r].memorySummary = None
                /\ req'[r].memorySummary # None
                     => /\ req'[r].memorySummary[1] \in rows
                        /\ \A q \in rows : q.updated_at <= req'[r].memorySummary[1].updated_at
        /\ (req[r].pc = "facts" /\ req'[r] # req[r])
             => /\ req'[r].pc = "complete"
                /\ req'[r].status = 0
                /\ req'[r].salientMemories \in {<<>>, salient_memories[u]}
                /\ req[r].memorySummary = None
                     => /\ Len(h) = 3 + n
                        /\ \A i \in DOMAIN h : ~IsSummaryEntry(h[i])
                /\ req'[r].salientMemories = <<>>
                     => h[1].parts[1].text = <<"System Prompt: ">> \o req[r].systemInstruction
    ]_vars

C29_Witness ==
  \E r \in DOMAIN req :
    /\ req[r].pc = "complete"
    /\ \E row \in SummariesOf(memory_summary, req[r].userId) : row.content # <<>>
    /\ req[r].memorySummary = None
    /\ Len(salient_memories[req[r].userId]) = 2
    /\ req[r].salientMemories = <<>>
    /\ Len(req[r].history) = 3 + Len(req[r].recentMessages)
    /\ req[r].history[1].parts[1].text = <<"System Prompt: ", "persona">>

\* C30: an evaluation whose count query fails returns at once: the step in
\* which the query fails changes no turn, fact or summary and ends the
\* evaluation, which has entered neither extraction nor summarization and
\* never takes another step.
C30_CountFailureRunsNothing ==
  /\ [](\A t \in DOMAIN tasks :
          tasks[t].outcome = "count_failed"
            => /\ tasks[t].pc = "done"
               /\ ~HasRead(t)
               /\ ~tasks[t].ranExtraction /\ tasks[t].exOutcome = "none"
               /\ ~tasks[t].ranSummary)
  /\ [][ \A t \in DOMAIN tasks :
           /\ (tasks[t].pc = "count" /\ tasks'[t] # tasks[t] /\ ~(tasks'[t].count >= 0))
                => /\ tasks'[t].outcome = "count_failed"
                   /\ tasks'[t].pc = "done"
                   /\ store' = store
           /\ tasks[t].outcome = "count_failed" => tasks'[t] = tasks[t]
       ]_vars

C30_Witness ==
  \E t \in DOMAIN tasks :
    /\ tasks[t].outcome = "count_failed"
    /\ OwnPosition(t) = SUMMARY_THRESHOLD
    /\ Len(messages[tasks[t].userId]) = SUMMARY_THRESHOLD
    /\ salient_memories[tasks[t].userId] = <<>>
    /\ ~HasSummary(tasks[t].userId)
    /\ req[tasks[t].by].pc = "done" /\ req[tasks[t].by].status = 500

NoHistoryText == <<"No previous conversation history.">>

\* C31: generateMemorySummary called with an empty sequence of turns returns
\* the fixed text 'No previous conversation history.'.
C31_EmptyHistoryGivesFixedText ==
  [][ \A t \in DOMAIN tasks :
        (tasks[t].pc = "sum_llm" /\ tasks[t].window = <<>> /\ tasks'[t].pc = "sum_save")
          => tasks'[t].summary = Some(NoHistoryText)
    ]_vars

\* the last n rows of a log, oldest first
LastTurns(rows, n) == SubSeq(rows, Len(rows) - Min(Len(rows), n) + 1, Len(rows))

\* C32: an extraction run over a user with N stored turns whose fetch returns
\* rows presents to the completion service exactly the min(N, 10) most recent
\* turns, oldest first (the fetch having returned them newest first: read
\* backwards, their timestamps fall); no older turn is part of the input.
C32_ExtractionWindow ==
  [][ \A t \in DOMAIN tasks :
        (tasks[t].pc = "ex_fetch" /\ tasks'[t].pc = "ex_llm")
          => LET rows == messages[tasks[t].userId]
                 window == tasks'[t].window IN
             /\ Len(window) = Min(Len(rows), 2 * SALIENT_EXTRACTION_INTERVAL)
             /\ window = LastTurns(rows, 2 * SALIENT_EXTRACTION_INTERVAL)
             /\ \A i \in 1..(Len(window) - 1) :
                  Reverse(window)[i].timestamp > Reverse(window)[i + 1].timestamp
             /\ \A i \in 1..(Len(rows) - 2 * SALIENT_EXTRACTION_INTERVAL) :
                  rows[i] \notin Range(window)
    ]_vars

C32_Witness ==
  \E t \in DOMAIN tasks :
    /\ tasks[t].pc = "ex_llm"
    /\ Len(messages[tasks[t].userId]) = 3 * SALIENT_EXTRACTION_INTERVAL
    /\ Len(tasks[t].window) = 2 * SALIENT_EXTRACTION_INTERVAL
    /\ tasks[t].window[1].timestamp = SALIENT_EXTRACTION_INTERVAL + 1
    /\ tasks[t].window[2 * SALIENT_EXTRACTION_INTERVAL].timestamp = 3 * SALIENT_EXTRACTION_INTERVAL

\* C33: in every reachable state a user who has a summary has at least 40
\* stored turns, and a user who has at least one salient fact has at least 5.
C33_MemoryImpliesEnoughTurns ==
  \A u \in Users :
    /\ HasSummary(u) => Len(messages[u]) >= SUMMARY_THRESHOLD
    /\ salient_memories[u] # <<>> => Len(messages[u]) >= SALIENT_EXTRACTION_INTERVAL

C33_Witness ==
  \E u \in Users :
    /\ HasSummary(u)
    /\ salient_memories[u] # <<>>
    /\ Len(messages[u]) = SUMMARY_THRESHOLD

\* C34: whenever a summarization run has called the completion service, the
\* window it passed has between 40 and 50 turns; and no run takes the
\* 'fewer than SUMMARY_THRESHOLD messages' return: every run is started after a
\* count of at least 40 and turns are never deleted, so a fetch that succeeds
\* returns at least 40 rows.
C34_SummaryWindowSize ==
  \A t \in DOMAIN tasks :
    /\ tasks[t].pc = "sum_llm"
         => /\ Len(tasks[t].window) >= SUMMARY_THRESHOLD
            /\ Len(tasks[t].window) <= MAX_MESSAGES_FOR_SUMMARY
    /\ tasks[t].ranSummary => tasks[t].count >= SUMMARY_THRESHOLD
    /\ tasks[t].outcome # "too_few"

C34_Witness ==
  \E t \in DOMAIN tasks :
    /\ tasks[t].pc = "sum_llm"
    /\ Len(tasks[t].window) = MAX_MESSAGES_FOR_SUMMARY
    /\ Len(messages[tasks[t].userId]) > MAX_MESSAGES_FOR_SUMMARY

LastCall(r) == req[r].calls[Len(req[r].calls)]

\* C35: a request is answered 200 only when its user turn and its model turn
\* are stored, in that order; a request has a model turn stored only when its
\* completion call has succeeded (the turn holds the reply); and a request
\* whose recent-window fetch, completion call or model-turn save failed is
\* answered 500, with its user turn stored and no model turn.
C35_AnswerOnlyAfterBothTurns ==
  \A r \in DOMAIN req :
    LET q == req[r]
        log == messages[q.userId] IN
    /\ q.status = 200
         => /\ Len(q.saved) = 2
            /\ q.saved[1].role = "user" /\ q.saved[1].content = q.message[1]
            /\ q.saved[2].role = "model"
            /\ q.saved[1].timestamp < q.saved[2].timestamp
            /\ q.saved[2].timestamp <= Len(log)
            /\ log[q.saved[1].timestamp] = q.saved[1]
            /\ log[q.saved[2].timestamp] = q.saved[2]
    /\ (\E i \in DOMAIN q.saved : q.saved[i].role = "model")
         => /\ Call("sendMessage", TRUE) \in Range(q.calls)
            /\ q.botResponseText # None
            /\ q.saved[Len(q.saved)].content = q.botResponseText[1]
    /\ (/\ q.calls # <<>>
        /\ LastCall(r) \in {Call("getRecentMessages", FALSE), Call("sendMessage", FALSE),
                            Call("saveMessage:model", FALSE)})
         => /\ q.pc = "done"
            /\ q.status = 500
            /\ q.body = GenericFailureBody
            /\ Len(q.saved) = 1
            /\ q.saved[1].role = "user" /\ q.saved[1].content = q.message[1]
            /\ log[Len(log)] = q.saved[1]

C35_Witness ==
  \E r \in DOMAIN req :
    /\ req[r].status = 500
    /\ LastCall(r) = Call("getRecentMessages", FALSE)
    /\ Len(req[r].saved) = 1
    /\ req[r].saved[1] = messages[req[r].userId][Len(messages[req[r].userId])]

\* C36: the recent window is fetched after the new user message is saved. So
\* whenever the user has at most 10 stored turns after that save, the turn of
\* the new message is the last row of the window, and the assembled context
\* ends with two user entries that both hold the message text: the last
\* recent-turn entry and the final entry.
C36_NewMessageTwiceInContext ==
  \A r \in DOMAIN req :
    LET q == req[r]
        h == q.history IN
    (q.saved # <<>> /\ q.saved[1].timestamp <= MAX_RECENT_MESSAGES)
      => /\ Call("getRecentMessages", TRUE) \in Range(q.calls)
           => /\ q.recentMessages # <<>>
              /\ q.recentMessages[Len(q.recentMessages)] = q.saved[1]
              /\ q.saved[1].content = q.message[1]
         /\ h # <<>>
           => /\ Len(h) >= 4
              /\ h[Len(h)] = [role |-> "user", parts |-> <<[text |-> q.message[1]]>>]
              /\ h[Len(h) - 1] = [role |-> "user", parts |-> <<[text |-> q.message[1]]>>]

C36_Witness ==
  \E r \in DOMAIN req :
    /\ req[r].pc = "complete"
    /\ req[r].saved[1].timestamp = MAX_RECENT_MESSAGES
    /\ Len(req[r].recentMessages) = MAX_RECENT_MESSAGES
    /\ Len(req[r].history) = MAX_RECENT_MESSAGES + 3
    /\ req[r].history[MAX_RECENT_MESSAGES + 2].parts[1].text = <<"hello">>
    /\ req[r].history[MAX_RECENT_MESSAGES + 3].parts[1].text = <<"hello">>

\* nothing in a text names a user other than u (the stored summary, fact and
\* personality texts of a user end with that user's id)
NamesOnly(text, u) == \A i \in DOMAIN text : text[i] \notin Users \ {u}

OwnRows(rows, u) == \A i \in DOMAIN rows : rows[i].user_id = u

\* C37: users are isolated. A step changes the turns, facts, summary and
\* personality of no user other than the one the request (and the evaluations
\* it started) is for. Everything a request or an evaluation of a user reads is
\* that user's: the recent window, the summary, the facts and the windows of
\* extraction and summarization hold rows of that user only, the assembled
\* context names no other user's data, the count read is the number of that
\* user's turns, and the extraction decision follows from that count alone. So
\* what is assembled and decided for a user is the same whatever is stored
\* for the other.
C37_UsersIsolated ==
  /\ [][ /\ \A u \in Users :
              (\A r \in DOMAIN req' : req'[r].userId # u)
                => /\ messages'[u] = messages[u]
                   /\ salient_memories'[u] = salient_memories[u]
                   /\ SummariesOf(memory_summary', u) = SummariesOf(memory_summary, u)
                   /\ personalities'[u] = personalities[u]
         /\ \A t \in DOMAIN tasks :
              (~HasRead(t) /\ tasks'[t].count >= 0)
                => tasks'[t].count = Len(messages[tasks[t].userId])
     ]_vars
  /\ [](\A r \in DOMAIN req :
          LET q == req[r] IN
          /\ OwnRows(q.recentMessages, q.userId)
          /\ OwnRows(q.salientMemories, q.userId)
          /\ OwnRows(q.memorySummary, q.userId)
          /\ NamesOnly(q.systemInstruction, q.userId)
          /\ \A i \in DOMAIN q.history : NamesOnly(q.history[i].parts[1].text, q.userId))
  /\ [](\A t \in DOMAIN tasks :
          /\ tasks[t].userId = req[tasks[t].by].userId
          /\ OwnRows(tasks[t].window, tasks[t].userId)
          /\ (HasRead(t) /\ tasks[t].pc # "count")
               => tasks[t].ranExtraction
                    = (tasks[t].count > 0
                         /\ tasks[t].count % SALIENT_EXTRACTION_INTERVAL = 0))

C37_Witness ==
  \E u, v \in Users :
    /\ u # v
    /\ req[1].userId = u /\ req[1].status = 200
    /\ \E t \in DOMAIN tasks : tasks[t].outcome = "saved" /\ tasks[t].exOutcome = "inserted"
    /\ Len(salient_memories[u]) > 1
    /\ \E i \in DOMAIN req[1].history : req[1].history[i].parts[1].text # <<>>
                                          /\ u \in Range(req[1].history[i].parts[1].text)
    /\ messages[v] = Established(v).turns
    /\ salient_memories[v] = Established(v).facts
    /\ SummariesOf(memory_summary, v) = Established(v).summaries

\* C38: the summarization run that persists last determines the stored
\* summary: whenever a run's upsert succeeds, the user's summary is the text
\* and updated_at of that run, whatever row was stored before, also when the
\* stored row came from a run that had fetched a newer window or carried a
\* later updated_at. (The witness is that case: two runs of a user overlap, the
\* run over the newer window stores first, and the stored summary is the one
\* of the run over the older window.)
C38_LastWriterWins ==
  [][ \A t \in DOMAIN tasks :
        (tasks[t].pc = "sum_save" /\ tasks'[t].outcome = "saved")
          => SummariesOf(memory_summary', tasks[t].userId)
               = {[user_id |-> tasks[t].userId, content |-> tasks[t].summary[1],
                   updated_at |-> tasks[t].updated_at]}
    ]_vars

C38_Witness ==
  \E t1, t2 \in DOMAIN tasks :
    /\ tasks[t1].userId = tasks[t2].userId
    /\ tasks[t1].outcome = "saved" /\ tasks[t2].outcome = "saved"
    /\ tasks[t1].fetchedUpTo < tasks[t2].fetchedUpTo
    /\ tasks[t1].savedAt # tasks[t2].savedAt
    /\ \A row \in SummariesOf(memory_summary, tasks[t1].userId) :
         row.updated_at = tasks[t1].savedAt

====
